---- MODULE Spec2Model ----
(***************************************************************************)
(* begonia-proxy: a forwarding proxy for Kubernetes clusters.              *)
(*                                                                         *)
(* The model follows src/src/main.rs (wire parser, worker, relay, accept   *)
(* loop), src/src/resolve.rs (resolution router, Endpoints resolver) and   *)
(* src/src/k8s.rs (cluster bootstrap).  Bytes are integers 0..255, strings *)
(* are sequences of bytes.  An Option<T> is a sequence of length 0 (None)  *)
(* or 1 (Some).                                                            *)
(***************************************************************************)
EXTENDS Integers, Sequences, FiniteSets, TLC

\* ------------------------------------------------------------------------
\* Program constants
\* ------------------------------------------------------------------------

\* main.rs:137   let mut buf = [0; 4096];
BufLen == 4096

\* main.rs:48    let mut headers = [httparse::EMPTY_HEADER; 16];
MaxHeaders == 16

\* main.rs:78    let fixed_header_len = 1 + 1 + 2 + 4;
fixed_header_len == 1 + 1 + 2 + 4

\* ------------------------------------------------------------------------
\* Byte strings
\* ------------------------------------------------------------------------

Min(a, b) == IF a < b THEN a ELSE b

\* s[from..to), positions counted from 0 as in Rust slices
Slice(s, from, to) == SubSeq(s, from + 1, to)

\* first position (from 0) at or after `from` holding byte b: <<>> or <<pos>>
position(s, from, b) ==
    IF \A i \in (from + 1)..Len(s) : s[i] # b THEN <<>>
    ELSE <<(CHOOSE i \in (from + 1)..Len(s) :
                /\ s[i] = b
                /\ \A j \in (from + 1)..(i - 1) : s[j] # b) - 1>>

\* str::rfind: last position (from 0) holding byte b: <<>> or <<pos>>
RECURSIVE rfind(_, _, _)
rfind(s, upto, b) ==
    IF upto = 0 THEN <<>>
    ELSE IF s[upto] = b THEN <<upto - 1>>
    ELSE rfind(s, upto - 1, b)

\* first position (from 1) at or after i whose byte is not in cls; Len(s)+1 at the end
ScanWhile(s, i, cls) ==
    IF i > Len(s) THEN i
    ELSE IF \A j \in i..Len(s) : s[j] \in cls THEN Len(s) + 1
    ELSE CHOOSE j \in i..Len(s) :
             /\ s[j] \notin cls
             /\ \A k \in i..(j - 1) : s[k] \in cls

Digits == 48..57
Alpha == (65..90) \cup (97..122)

\* ------------------------------------------------------------------------
\* u16::from_str (main.rs:70): an optional '+', then one or more decimal
\* digits, the value at most 65535.  <<>> is Err, <<n>> is Ok(n).
\* ------------------------------------------------------------------------

RECURSIVE DecimalValue(_, _)
DecimalValue(s, acc) ==
    IF s = <<>> THEN <<acc>>
    ELSE IF Head(s) \notin Digits THEN <<>>
    ELSE IF acc * 10 + (Head(s) - 48) > 65535 THEN <<>>
    ELSE DecimalValue(Tail(s), acc * 10 + (Head(s) - 48))

u16_from_str(s) ==
    LET digits == IF s # <<>> /\ Head(s) = 43 THEN Tail(s) ELSE s
    IN  IF digits = <<>> THEN <<>> ELSE DecimalValue(digits, 0)

\* u16::from_be_bytes (main.rs:104)
u16_from_be_bytes(hi, lo) == hi * 256 + lo

\* u16::try_from(i32) (resolve.rs:85): checked narrowing
u16_try_from(n) == IF n >= 0 /\ n <= 65535 THEN <<n>> ELSE <<>>

\* ------------------------------------------------------------------------
\* String::from_utf8 (main.rs:115): TRUE when the bytes are well-formed UTF-8
\* ------------------------------------------------------------------------

Cont(s, i, lo, hi) == i <= Len(s) /\ s[i] >= lo /\ s[i] <= hi

RECURSIVE is_utf8(_, _)
is_utf8(s, i) ==
    IF i > Len(s) THEN TRUE
    ELSE LET b == s[i] IN
         IF b < 128 THEN is_utf8(s, i + 1)
         ELSE IF b >= 194 /\ b <= 223
              THEN Cont(s, i + 1, 128, 191) /\ is_utf8(s, i + 2)
         ELSE IF b >= 224 /\ b <= 239
              THEN /\ Cont(s, i + 1, IF b = 224 THEN 160 ELSE 128,
                                     IF b = 237 THEN 159 ELSE 191)
                   /\ Cont(s, i + 2, 128, 191)
                   /\ is_utf8(s, i + 3)
         ELSE IF b >= 240 /\ b <= 244
              THEN /\ Cont(s, i + 1, IF b = 240 THEN 144 ELSE 128,
                                     IF b = 244 THEN 143 ELSE 191)
                   /\ Cont(s, i + 2, 128, 191)
                   /\ Cont(s, i + 3, 128, 191)
                   /\ is_utf8(s, i + 4)
         ELSE FALSE

\* ------------------------------------------------------------------------
\* httparse::Request::parse (called at main.rs:50).  The crate is an external
\* dependency; this is its contract for a request head: method token, SP,
\* request target, SP, "HTTP/1.0" or "HTTP/1.1", line end, header lines, an
\* empty line.  Running out of input is "partial"; a byte the grammar does
\* not allow at its place is "error".
\* ------------------------------------------------------------------------

TokenBytes ==
    Digits \cup Alpha \cup {33, 35, 36, 37, 38, 39, 42, 43, 45, 46, 94, 95, 96, 124, 126}

UriBytes == (33..126) \ {34, 60, 62, 92, 94, 96, 123, 124, 125}

HeaderValueBytes == {9} \cup (32..126) \cup (128..255)

\* "HTTP/1."
VersionPrefix == <<72, 84, 84, 80, 47, 49, 46>>

NoRequest == [st |-> "error", method |-> <<>>, path |-> <<>>]

HttpPartial == [NoRequest EXCEPT !.st = "partial"]

\* the line end at position p: [st, next]
Newline(b, p) ==
    IF p > Len(b) THEN [st |-> "partial", next |-> p]
    ELSE IF b[p] = 10 THEN [st |-> "ok", next |-> p + 1]
    ELSE IF b[p] # 13 THEN [st |-> "error", next |-> p]
    ELSE IF p + 1 > Len(b) THEN [st |-> "partial", next |-> p]
    ELSE IF b[p + 1] = 10 THEN [st |-> "ok", next |-> p + 2]
    ELSE [st |-> "error", next |-> p]

\* "HTTP/1.0" or "HTTP/1.1" at position p: [st, next]
RECURSIVE ParseVersion(_, _, _)
ParseVersion(b, p, k) ==
    IF p + k > Len(b) THEN [st |-> "partial", next |-> p]
    ELSE IF k < Len(VersionPrefix)
         THEN IF b[p + k] = VersionPrefix[k + 1]
              THEN ParseVersion(b, p, k + 1)
              ELSE [st |-> "error", next |-> p]
    ELSE IF b[p + k] \in {48, 49} THEN [st |-> "ok", next |-> p + k + 1]
    ELSE [st |-> "error", next |-> p]

\* the header lines from position p on, n of them already stored: "complete",
\* "partial" or "error"
RECURSIVE ParseHeaders(_, _, _)
ParseHeaders(b, p, n) ==
    IF p > Len(b) THEN "partial"
    ELSE IF b[p] \in {10, 13}
         THEN LET nl == Newline(b, p)
              IN  IF nl.st = "ok" THEN "complete" ELSE nl.st
    ELSE IF n = MaxHeaders THEN "error"
    ELSE LET nameEnd == ScanWhile(b, p, TokenBytes) IN
         IF nameEnd > Len(b) THEN "partial"
         ELSE IF nameEnd = p \/ b[nameEnd] # 58 THEN "error"
         ELSE LET valueStart == ScanWhile(b, nameEnd + 1, {9, 32})
                  valueEnd == ScanWhile(b, valueStart, HeaderValueBytes)
                  nl == Newline(b, valueEnd)
              IN  IF nl.st = "ok" THEN ParseHeaders(b, nl.next, n + 1) ELSE nl.st

httparse(b) ==
    LET methodEnd == ScanWhile(b, 1, TokenBytes) IN
    IF methodEnd > Len(b) THEN HttpPartial
    ELSE IF methodEnd = 1 \/ b[methodEnd] # 32 THEN NoRequest
    ELSE LET pathEnd == ScanWhile(b, methodEnd + 1, UriBytes) IN
    IF pathEnd > Len(b) THEN HttpPartial
    ELSE IF pathEnd = methodEnd + 1 \/ b[pathEnd] # 32 THEN NoRequest
    ELSE LET ver == ParseVersion(b, pathEnd + 1, 0) IN
    IF ver.st # "ok" THEN [NoRequest EXCEPT !.st = ver.st]
    ELSE LET nl == Newline(b, ver.next) IN
    IF nl.st # "ok" THEN [NoRequest EXCEPT !.st = nl.st]
    ELSE LET hs == ParseHeaders(b, nl.next, 0) IN
    IF hs # "complete" THEN [NoRequest EXCEPT !.st = hs]
    ELSE [st |-> "complete",
          method |-> SubSeq(b, 1, methodEnd - 1),
          path |-> SubSeq(b, methodEnd + 1, pathEnd - 1)]

\* ------------------------------------------------------------------------
\* ConnectType (main.rs:25-33) and the wire parser's step (main.rs:43-125)
\* ------------------------------------------------------------------------

ConnectType(type, hostname, port, ip, path) ==
    [type |-> type, hostname |-> hostname, port |-> port, ip |-> ip, path |-> path]

NoConnect == ConnectType("none", <<>>, 0, <<>>, <<>>)

\* what one pass of the loop body decides once `found` bytes were added:
\* k = "continue" (read more), "bail" (protocol error err), "reject" (SOCKS4
\* command refused: two writes, then a protocol error) or "ok" (init)
Continue == [k |-> "continue", err |-> "", init |-> NoConnect]
Bail(err) == [k |-> "bail", err |-> err, init |-> NoConnect]
Reject == [k |-> "reject", err |-> "invalid socks4 command", init |-> NoConnect]
Emit(init) == [k |-> "ok", err |-> "", init |-> init]

\* the whole buffer: the bytes read so far, then the zeroes of its construction
Buffer(valid) == [i \in 1..BufLen |-> IF i <= Len(valid) THEN valid[i] ELSE 0]

\* "CONNECT", "GET"
MethodConnect == <<67, 79, 78, 78, 69, 67, 84>>
MethodGet == <<71, 69, 84>>

\* a marker test that looks at the first three octets only
socks4a_marker_zero_net(ip) == ip[1] = 0 /\ ip[2] = 0 /\ ip[3] = 0

\* main.rs:129-132
socks4a_marker_ip(ip) == ip[1] = 0 /\ ip[2] = 0 /\ ip[3] = 0 /\ ip[4] # 0

\* main.rs:46-75
ParseHttp(valid) ==
    LET req == httparse(Buffer(valid)) IN
    IF req.st = "error" THEN Bail("httparse")
    ELSE IF req.st = "partial" THEN Continue
    ELSE IF req.method = MethodGet
         THEN Emit(ConnectType("InvalidHttpGet", <<>>, 0, <<>>, req.path))
    ELSE IF req.method # MethodConnect THEN Bail("invalid method")
    ELSE LET host_with_port == req.path
             colon == rfind(host_with_port, Len(host_with_port), 58)
         IN  IF colon = <<>> THEN Bail("port required in hostname")
             ELSE LET hostname == Slice(host_with_port, 0, colon[1])
                      port == Slice(host_with_port, colon[1], Len(host_with_port))
                  IN  IF port = <<>> THEN Bail("empty port")
                      ELSE LET n == u16_from_str(Tail(port))
                           IN  IF n = <<>> THEN Bail("ParseIntError")
                               ELSE Emit(ConnectType("Http", hostname, n[1], <<>>, <<>>))

\* a parser that looks at the command only once USERID is terminated
ParseSocks4TerminatorFirst(valid) ==
    IF Len(valid) < fixed_header_len THEN Continue
    ELSE LET nul == position(valid, fixed_header_len, 0) IN
         IF nul = <<>> THEN Continue
         ELSE IF valid[2] # 1 THEN Reject
         ELSE LET user_end == nul[1] + 1
                  port == u16_from_be_bytes(valid[3], valid[4])
                  ip == Slice(valid, 4, 8)
              IN  IF socks4a_marker_ip(ip)
                  THEN LET hostname_end == position(valid, user_end, 0)
                       IN  IF hostname_end = <<>> THEN Continue
                           ELSE LET hostname == Slice(valid, user_end, hostname_end[1])
                                IN  IF is_utf8(hostname, 1)
                                    THEN Emit(ConnectType("Socks4Host", hostname, port,
                                                          <<>>, <<>>))
                                    ELSE Bail("FromUtf8Error")
                  ELSE Emit(ConnectType("Socks4Ip", <<>>, port, ip, <<>>))

\* main.rs:77-121
ParseSocks4(valid) ==
    IF Len(valid) < fixed_header_len THEN Continue
    ELSE IF valid[2] # 1 THEN Reject
    ELSE LET nul == position(valid, fixed_header_len, 0) IN
         IF nul = <<>> THEN Continue
         ELSE LET user_end == nul[1] + 1
                  port == u16_from_be_bytes(valid[3], valid[4])
                  ip == Slice(valid, 4, 8)
              IN  IF socks4a_marker_ip(ip)
                  THEN LET hostname_end == position(valid, user_end, 0)
                       IN  IF hostname_end = <<>> THEN Continue
                           ELSE LET hostname == Slice(valid, user_end, hostname_end[1])
                                IN  IF is_utf8(hostname, 1)
                                    THEN Emit(ConnectType("Socks4Host", hostname, port,
                                                          <<>>, <<>>))
                                    ELSE Bail("FromUtf8Error")
                  ELSE Emit(ConnectType("Socks4Ip", <<>>, port, ip, <<>>))

\* main.rs:44-125: `return match valid[0] { ... }`
Inspect(valid) ==
    IF valid[1] \in {67, 71} THEN ParseHttp(valid)
    ELSE IF valid[1] = 4 THEN ParseSocks4(valid)
    ELSE Bail("unrecognised")

\* ------------------------------------------------------------------------
\* The resolution router and the Endpoints resolver (resolve.rs)
\* ------------------------------------------------------------------------

\* the namespace of ResolveCtx (main.rs:248): "default"
default_namespace == <<100, 101, 102, 97, 117, 108, 116>>

\* "endpoints", "pod", "pod-by-name", "local"
KindEndpoints == <<101, 110, 100, 112, 111, 105, 110, 116, 115>>
KindPod == <<112, 111, 100>>
KindPodByName == <<112, 111, 100, 45, 98, 121, 45, 110, 97, 109, 101>>
LabelLocal == <<108, 111, 99, 97, 108>>

\* [a-zA-Z0-9-]
LabelBytes == Digits \cup Alpha \cup {45}

\* the parts of s between the dots
RECURSIVE SplitDots(_, _)
SplitDots(s, cur) ==
    IF s = <<>> THEN <<cur>>
    ELSE IF Head(s) = 46 THEN <<cur>> \o SplitDots(Tail(s), <<>>)
    ELSE SplitDots(Tail(s), Append(cur, Head(s)))

\* [a-zA-Z0-9-]{1,63}
IsLabel(l) == Len(l) >= 1 /\ Len(l) <= 63 /\ \A i \in 1..Len(l) : l[i] \in LabelBytes

\* RE.captures (resolve.rs:42-50):
\*   ^([a-zA-Z0-9-]{1,63})(?:\.([a-zA-Z0-9-]{1,63}))?\.(endpoints|pod|pod-by-name)\.local\.?$
\* <<>> when the hostname does not match, else <<[name, ns, command]>> with ns
\* the optional second group.  No group holds a dot, so the match is decided
\* by the hostname's parts between dots, one trailing dot left aside.
RE_captures(hostname) ==
    LET body == IF hostname # <<>> /\ hostname[Len(hostname)] = 46
                THEN SubSeq(hostname, 1, Len(hostname) - 1)
                ELSE hostname
        parts == SplitDots(body, <<>>)
        n == Len(parts)
    IN  IF /\ n \in {3, 4}
           /\ parts[n] = LabelLocal
           /\ parts[n - 1] \in {KindEndpoints, KindPod, KindPodByName}
           /\ \A i \in 1..(n - 2) : IsLabel(parts[i])
        THEN <<[name |-> parts[1],
                ns |-> IF n = 4 THEN <<parts[2]>> ELSE <<>>,
                command |-> parts[n - 1]]>>
        ELSE <<>>

\* IpAddr::from_str (resolve.rs:74, k8s.rs:37) on the address literals of the
\* model: <<>> is Err, <<ip>> is Ok(ip), an address being its octets
IpAddr_from_str(s) ==
    CASE s = "10.1.1.1" -> << <<10, 1, 1, 1>> >>
      [] s = "10.1.1.2" -> << <<10, 1, 1, 2>> >>
      [] s = "10.0.0.10" -> << <<10, 0, 0, 10>> >>
      [] OTHER -> <<>>

SocketAddr(ip, port) == [ip |-> ip, port |-> port]

unwrap_or_default(opt) == IF opt = <<>> THEN <<>> ELSE opt[1]

\* the elements of a sequence, as a set
Elems(s) == {s[i] : i \in 1..Len(s)}

RECURSIVE Flatten(_)
Flatten(ss) == IF ss = <<>> THEN <<>> ELSE Head(ss) \o Flatten(Tail(ss))

\* what one call of resolve did and returned: res is "ok" (addrs), "err" (err)
\* or "panic"; calls lists the back-end requests it issued, in order
ResolveResult(res, addrs, err, calls) ==
    [res |-> res, addrs |-> addrs, err |-> err, calls |-> calls]

ApiCall(ns, name) == [to |-> "api", ns |-> ns, name |-> name]
DnsCall(hostname) == [to |-> "dns", ns |-> <<>>, name |-> hostname]

\* resolve.rs:112-140: the stub resolver's configuration, then the lookup,
\* whose answer `dns` ([ok, ips]) is the cluster DNS's
ResolverConfig(ctx) ==
    [name_servers |-> [i \in 1..Len(ctx.dns_servers) |->
                          SocketAddr(ctx.dns_servers[i], 53)],
     search |-> Flatten([i \in 1..Len(ctx.dns_servers) |->
                          <<"{default_namespace}.svc.{cluster_local}",
                            "svc.{cluster_local}",
                            "{cluster_local}">>])]

resolve_against_kube_dns(ctx, hostname, dns) ==
    IF dns.ok THEN ResolveResult("ok", dns.ips, "", <<DnsCall(hostname)>>)
    ELSE ResolveResult("err", <<>>, "dns", <<DnsCall(hostname)>>)

\* the Endpoints resolver with the port always taken from the client
resolve_endpoints_client_port(ns, name, specified_port, api) ==
    LET calls == <<ApiCall(ns, name)>> IN
    IF ~api.ok THEN ResolveResult("err", <<>>, "api", calls)
    ELSE
    LET subsets == unwrap_or_default(api.endpoints.subsets)
        ports == UNION {Elems(unwrap_or_default(subsets[i].ports)) : i \in 1..Len(subsets)}
        literals == Flatten([i \in 1..Len(subsets) |->
                                unwrap_or_default(subsets[i].addresses)])
        bad == \E i \in 1..Len(literals) : IpAddr_from_str(literals[i]) = <<>>
        ips == [i \in 1..Len(literals) |-> IpAddr_from_str(literals[i])[1]]
    IN  IF bad THEN ResolveResult("err", <<>>, "parsing", calls)
        ELSE IF ports = {} \/ literals = <<>> THEN ResolveResult("ok", <<>>, "", calls)
        ELSE ResolveResult("ok",
                           [i \in 1..Len(ips) |-> SocketAddr(ips[i], specified_port)],
                           "", calls)

\* the Endpoints resolver with the port always taken from the Endpoints object
resolve_endpoints_first_port(ns, name, specified_port, api) ==
    LET calls == <<ApiCall(ns, name)>> IN
    IF ~api.ok THEN ResolveResult("err", <<>>, "api", calls)
    ELSE
    LET subsets == unwrap_or_default(api.endpoints.subsets)
        ports == UNION {Elems(unwrap_or_default(subsets[i].ports)) : i \in 1..Len(subsets)}
        literals == Flatten([i \in 1..Len(subsets) |->
                                unwrap_or_default(subsets[i].addresses)])
        bad == \E i \in 1..Len(literals) : IpAddr_from_str(literals[i]) = <<>>
        ips == [i \in 1..Len(literals) |-> IpAddr_from_str(literals[i])[1]]
    IN  IF bad THEN ResolveResult("err", <<>>, "parsing", calls)
        ELSE IF ports = {} \/ literals = <<>> THEN ResolveResult("ok", <<>>, "", calls)
        ELSE LET port == u16_try_from(CHOOSE p \in ports : \A q \in ports : p <= q)
             IN  IF port = <<>> THEN ResolveResult("err", <<>>, "TryFromIntError", calls)
                 ELSE ResolveResult("ok",
                                    [i \in 1..Len(ips) |-> SocketAddr(ips[i], port[1])],
                                    "", calls)

\* resolve.rs:59-100: the "endpoints" arm; `api` ([ok, endpoints]) is the API
\* server's answer to GET endpoints/{name} in namespace {ns}
resolve_endpoints(ns, name, specified_port, api) ==
    LET calls == <<ApiCall(ns, name)>> IN
    IF ~api.ok THEN ResolveResult("err", <<>>, "api", calls)
    ELSE
    LET subsets == unwrap_or_default(api.endpoints.subsets)
        ports == UNION {Elems(unwrap_or_default(subsets[i].ports)) : i \in 1..Len(subsets)}
        literals == Flatten([i \in 1..Len(subsets) |->
                                unwrap_or_default(subsets[i].addresses)])
        \* the loop leaves at the first literal that does not parse
        bad == \E i \in 1..Len(literals) : IpAddr_from_str(literals[i]) = <<>>
        ips == [i \in 1..Len(literals) |-> IpAddr_from_str(literals[i])[1]]
    IN  IF bad THEN ResolveResult("err", <<>>, "parsing", calls)
        ELSE IF ports = {} \/ literals = <<>> THEN ResolveResult("ok", <<>>, "", calls)
        ELSE LET port == IF Cardinality(ports) = 1
                         THEN u16_try_from(CHOOSE p \in ports : TRUE)
                         ELSE <<specified_port>>
             IN  IF port = <<>> THEN ResolveResult("err", <<>>, "TryFromIntError", calls)
                 ELSE ResolveResult("ok",
                                    [i \in 1..Len(ips) |-> SocketAddr(ips[i], port[1])],
                                    "", calls)

\* the router falling through to DNS when the Endpoints lookup gives no address
resolve_falls_through(ctx, hostname, specified_port, api, dns) ==
    LET custom == RE_captures(hostname)
        byDns == resolve_against_kube_dns(ctx, hostname, dns)
        viaDns == IF byDns.res = "ok"
                  THEN [byDns EXCEPT !.addrs = [i \in 1..Len(byDns.addrs) |->
                                                  SocketAddr(byDns.addrs[i], specified_port)]]
                  ELSE byDns
    IN  IF custom # <<>>
        THEN LET name == custom[1].name
                 ns == IF custom[1].ns # <<>> THEN custom[1].ns[1] ELSE ctx.default_namespace
                 command == custom[1].command
                 byApi == resolve_endpoints(ns, name, specified_port, api)
             IN  IF command # KindEndpoints
                 THEN ResolveResult("panic", <<>>, "not implemented", <<>>)
                 ELSE IF byApi.addrs # <<>> THEN byApi
                 ELSE [viaDns EXCEPT !.calls = byApi.calls \o viaDns.calls]
        ELSE viaDns

\* the router leaving the reserved kinds to DNS
resolve_reserved_by_dns(ctx, hostname, specified_port, api, dns) ==
    LET custom == RE_captures(hostname)
        r == resolve_against_kube_dns(ctx, hostname, dns)
    IN  IF custom # <<>> /\ custom[1].command = KindEndpoints
        THEN resolve_endpoints(IF custom[1].ns # <<>> THEN custom[1].ns[1]
                               ELSE ctx.default_namespace,
                               custom[1].name, specified_port, api)
        ELSE IF r.res = "ok"
        THEN [r EXCEPT !.addrs = [i \in 1..Len(r.addrs) |->
                                     SocketAddr(r.addrs[i], specified_port)]]
        ELSE r

\* resolve.rs:37-110
resolve(ctx, hostname, specified_port, api, dns) ==
    LET custom == RE_captures(hostname) IN
    IF custom # <<>>
    THEN LET name == custom[1].name
             ns == IF custom[1].ns # <<>> THEN custom[1].ns[1] ELSE ctx.default_namespace
             command == custom[1].command
         IN  IF command = KindEndpoints
             THEN resolve_endpoints(ns, name, specified_port, api)
             ELSE ResolveResult("panic", <<>>, "not implemented", <<>>)
    ELSE LET r == resolve_against_kube_dns(ctx, hostname, dns)
         IN  IF r.res = "ok"
             THEN [r EXCEPT !.addrs = [i \in 1..Len(r.addrs) |->
                                          SocketAddr(r.addrs[i], specified_port)]]
             ELSE r

\* ------------------------------------------------------------------------
\* Bounds and the inputs the environment can supply
\* ------------------------------------------------------------------------

\* bytes each peer writes into the tunnel
MaxData == 2

\* subsets of an Endpoints object, ports and addresses of a subset, DNS records
MaxSubsets == 2
MaxPorts == 1
MaxAddresses == 2
MaxDnsIps == 2

SeqsUpTo(S, n) == UNION {[1..k -> S] : k \in 0..n}

Option(S) == {<<>>} \cup {<<x>> : x \in S}

\* EndpointPort.port is an i32; Kubernetes serves 1..65535, the type holds more
PortValues == {80, 443, 70000}

\* EndpointAddress.ip is a string
AddressLiterals == {"10.1.1.1", "10.1.1.2", "not-an-ip"}

EndpointSubsets ==
    [ports : Option(SeqsUpTo(PortValues, MaxPorts)),
     addresses : Option(SeqsUpTo(AddressLiterals, MaxAddresses))]

EndpointsObjects == [subsets : Option(SeqsUpTo(EndpointSubsets, MaxSubsets))]

ApiFailure == [ok |-> FALSE, endpoints |-> [subsets |-> <<>>]]

ApiAnswers == {ApiFailure} \cup {[ok |-> TRUE, endpoints |-> e] : e \in EndpointsObjects}

DnsFailure == [ok |-> FALSE, ips |-> <<>>]

DnsAnswers ==
    {DnsFailure} \cup
    {[ok |-> TRUE, ips |-> ips] :
        ips \in SeqsUpTo({<<10, 1, 1, 1>>, <<10, 1, 1, 2>>}, MaxDnsIps)}

\* the cluster states a connection is served in: the full sets above are the
\* router's inputs, these are the answers a worker meets
OneSubset(ports, addresses) ==
    [ok |-> TRUE,
     endpoints |-> [subsets |-> << <<[ports |-> <<ports>>, addresses |-> <<addresses>>]>> >>]]

WorkerApiAnswers ==
    {ApiFailure,
     [ok |-> TRUE, endpoints |-> [subsets |-> <<>>]],
     OneSubset(<<443>>, <<"10.1.1.1", "10.1.1.2">>),
     OneSubset(<<443>>, <<"not-an-ip">>)}

WorkerDnsAnswers ==
    {DnsFailure,
     [ok |-> TRUE, ips |-> <<>>],
     [ok |-> TRUE, ips |-> << <<10, 1, 1, 1>>, <<10, 1, 1, 2>> >>]}

\* the handshakes a client sends
\* "CONNECT a.b:80 HTTP/1.1\r\n\r\n"
HsHttpDns ==
    <<67, 79, 78, 78, 69, 67, 84, 32, 97, 46, 98, 58, 56, 48, 32, 72, 84, 84, 80, 47,
      49, 46, 49, 13, 10, 13, 10>>
\* "CONNECT a.endpoints.local:80 HTTP/1.1\r\nHost: a\r\n\r\n"
HsHttpEndpoints ==
    <<67, 79, 78, 78, 69, 67, 84, 32, 97, 46, 101, 110, 100, 112, 111, 105, 110, 116,
      115, 46, 108, 111, 99, 97, 108, 58, 56, 48, 32, 72, 84, 84, 80, 47, 49, 46, 49,
      13, 10, 72, 111, 115, 116, 58, 32, 97, 13, 10, 13, 10>>
\* "CONNECT a.pod.local:80 HTTP/1.1\r\n\r\n"
HsHttpPod ==
    <<67, 79, 78, 78, 69, 67, 84, 32, 97, 46, 112, 111, 100, 46, 108, 111, 99, 97, 108,
      58, 56, 48, 32, 72, 84, 84, 80, 47, 49, 46, 49, 13, 10, 13, 10>>
\* "CONNECT a.b HTTP/1.1\r\n\r\n"
HsHttpNoPort ==
    <<67, 79, 78, 78, 69, 67, 84, 32, 97, 46, 98, 32, 72, 84, 84, 80, 47, 49, 46, 49,
      13, 10, 13, 10>>
\* "CONNECT a.b: HTTP/1.1\r\n\r\n"
HsHttpBadPort ==
    <<67, 79, 78, 78, 69, 67, 84, 32, 97, 46, 98, 58, 32, 72, 84, 84, 80, 47, 49, 46,
      49, 13, 10, 13, 10>>
\* "COPY / HTTP/1.1\r\n\r\n"
HsHttpBadMethod ==
    <<67, 79, 80, 89, 32, 47, 32, 72, 84, 84, 80, 47, 49, 46, 49, 13, 10, 13, 10>>
\* "GET / HTTP/1.1\r\n\r\n"
HsGetRoot == <<71, 69, 84, 32, 47, 32, 72, 84, 84, 80, 47, 49, 46, 49, 13, 10, 13, 10>>
\* "GET /healthcheck HTTP/1.0\n\n"
HsGetHealthcheck ==
    <<71, 69, 84, 32, 47, 104, 101, 97, 108, 116, 104, 99, 104, 101, 99, 107, 32, 72,
      84, 84, 80, 47, 49, 46, 48, 10, 10>>
\* "GET /x HTTP/1.1\r\n\r\n"
HsGetOther ==
    <<71, 69, 84, 32, 47, 120, 32, 72, 84, 84, 80, 47, 49, 46, 49, 13, 10, 13, 10>>
\* SOCKS4 CONNECT to 10.1.1.1:80, empty USERID
HsSocks4Ip == <<4, 1, 0, 80, 10, 1, 1, 1, 0>>
\* SOCKS4 CONNECT to 10.1.1.1:80, USERID "u", then a byte of payload sent early
HsSocks4IpEarly == <<4, 1, 0, 80, 10, 1, 1, 1, 117, 0, 22>>
\* SOCKS4 CONNECT to 0.0.0.0:80
HsSocks4Zero == <<4, 1, 0, 80, 0, 0, 0, 0, 0>>
\* SOCKS4a CONNECT to "a.b":80, USERID "u"
HsSocks4aDns == <<4, 1, 0, 80, 0, 0, 0, 1, 117, 0, 97, 46, 98, 0>>
\* SOCKS4a CONNECT to "a.b.endpoints.local.":80
HsSocks4aEndpoints ==
    <<4, 1, 0, 80, 0, 0, 0, 7, 0, 97, 46, 98, 46, 101, 110, 100, 112, 111, 105, 110,
      116, 115, 46, 108, 111, 99, 97, 108, 46, 0>>
\* SOCKS4a CONNECT whose hostname is the byte FF
HsSocks4aBadUtf8 == <<4, 1, 0, 80, 0, 0, 0, 1, 0, 255, 0>>
\* SOCKS4 BIND
HsSocks4Bind == <<4, 2, 0, 80, 10, 1, 1, 1, 0>>
\* a SOCKS5 greeting
HsSocks5 == <<5, 1, 0>>
\* SOCKS4a CONNECT to "a.pod-by-name.local":80
HsSocks4aPodByName ==
    <<4, 1, 0, 80, 0, 0, 0, 1, 0, 97, 46, 112, 111, 100, 45, 98, 121, 45, 110, 97, 109,
      101, 46, 108, 111, 99, 97, 108, 0>>

Handshakes ==
    {HsHttpDns, HsHttpEndpoints, HsHttpPod, HsHttpNoPort, HsHttpBadPort, HsHttpBadMethod,
     HsGetRoot, HsGetHealthcheck, HsGetOther,
     HsSocks4Ip, HsSocks4IpEarly, HsSocks4Zero, HsSocks4aDns, HsSocks4aEndpoints,
     HsSocks4aBadUtf8, HsSocks4Bind, HsSocks5, HsSocks4aPodByName}

\* the replies of the worker
\* "HTTP/1.0 200 OK\r\n\r\n"
ReplyHttpOk ==
    <<72, 84, 84, 80, 47, 49, 46, 48, 32, 50, 48, 48, 32, 79, 75, 13, 10, 13, 10>>
ReplySocksOk == <<0, 90, 0, 0, 0, 0, 0, 0>>
ReplySocksRejected == <<0, 91, 0, 0, 0, 0, 0, 0>>
\* env!("CARGO_CRATE_NAME"): "begonia_proxy"
CrateName == <<98, 101, 103, 111, 110, 105, 97, 95, 112, 114, 111, 120, 121>>
ReplyGetRoot == ReplyHttpOk \o CrateName
\* "HTTP/1.0 200 OK\r\nContent-Type: application/json\r\n\r\n{\"ok\":true}"
ReplyGetHealthcheck ==
    <<72, 84, 84, 80, 47, 49, 46, 48, 32, 50, 48, 48, 32, 79, 75, 13, 10, 67, 111, 110,
      116, 101, 110, 116, 45, 84, 121, 112, 101, 58, 32, 97, 112, 112, 108, 105, 99, 97,
      116, 105, 111, 110, 47, 106, 115, 111, 110, 13, 10, 13, 10, 123, 34, 111, 107, 34,
      58, 116, 114, 117, 101, 125>>
\* "HTTP/1.0 404 NO\r\n\r\n"
ReplyGetNotFound ==
    <<72, 84, 84, 80, 47, 49, 46, 48, 32, 52, 48, 52, 32, 78, 79, 13, 10, 13, 10>>

\* ------------------------------------------------------------------------
\* DNS discovery at startup (k8s.rs)
\* ------------------------------------------------------------------------

\* k8s.rs:16-18
has_port(port, ports) == \E i \in 1..Len(ports) : ports[i] = port

\* what find_dns returned: res is "ok" (ips) or "err" (err)
FindResult(res, ips, err) == [res |-> res, ips |-> ips, err |-> err]

\* k8s.rs:29-32: the filter on a subset
ExposesDns(endpoint) == endpoint.ports # <<>> /\ has_port(53, endpoint.ports[1])

\* k8s.rs:33-36: the address literals of a subset
AddressesOf(endpoint) ==
    IF endpoint.addresses # <<>> THEN endpoint.addresses[1] ELSE <<>>

\* k8s.rs:20-39: api is the API server's answer for kube-system/kube-dns
find_dns(api) ==
    IF ~api.ok THEN FindResult("err", <<>>, "listing endpoints")
    ELSE IF api.endpoints.subsets = <<>>
    THEN FindResult("err", <<>>, "no kube-dns endpoints at all")
    ELSE LET kept == SelectSeq(api.endpoints.subsets[1], ExposesDns)
             literals == Flatten([i \in 1..Len(kept) |-> AddressesOf(kept[i])])
         IN  IF \E i \in 1..Len(literals) : IpAddr_from_str(literals[i]) = <<>>
             THEN FindResult("err", <<>>, "parsing")
             ELSE FindResult("ok",
                             [i \in 1..Len(literals) |-> IpAddr_from_str(literals[i])[1]],
                             "")

\* the kube-dns Endpoints objects the API server may answer with
DnsPortValues == {53, 9153}

KubeDnsSubsets ==
    [ports : Option(SeqsUpTo(DnsPortValues, MaxPorts + 1)),
     addresses : Option(SeqsUpTo(AddressLiterals, MaxAddresses))]

KubeDnsAnswers ==
    {ApiFailure} \cup
    {[ok |-> TRUE, endpoints |-> [subsets |-> ss]] :
        ss \in Option(SeqsUpTo(KubeDnsSubsets, MaxSubsets))}

\* ------------------------------------------------------------------------
\* State
\* ------------------------------------------------------------------------

Clients == {"c1", "c2"}

\* the two copy tasks of a worker: "up" is source to destination, "down" is
\* destination to source
Dirs == {"up", "down"}

Other(d) == IF d = "up" THEN "down" ELSE "up"

VARIABLES
    pending,    \* the clients whose connections the listener has yet to accept
    listener,   \* "listening", or "failed" once accept returned an error
    pc,         \* where each worker is
    wire,       \* handshake bytes of the client that the worker has not read
    valid,      \* buf[..progress] of read_initialisation
    init,       \* the ConnectType the wire parser returned
    calls,      \* the back-end requests the worker's resolution issued
    resolved,   \* how the worker's resolution ended: "none", "ok", "err", "panic"
    addrs,      \* the resolved addresses
    attempts,   \* outbound connection attempts made
    dest,       \* the address the outbound socket is connected to, as an Option
    err,        \* the error the worker ended with
    srcLog,     \* the writes issued on the source socket, in order
    sent,       \* per direction: the bytes the peer wrote into the tunnel
    inq,        \* per direction: the bytes written and not yet read by the copy
    closed,     \* per direction: the peer has closed its sending half
    cbuf,       \* per direction: the bytes the copy has read and not yet written
    cpc,        \* per direction: where the copy task is
    delivered,  \* per direction: the bytes the copy wrote to the other side
    shut,       \* per direction: the write half towards the other side is shut down
    router,     \* one call of the resolution router: its inputs and its result
    boot        \* DNS discovery at startup: the kube-dns Endpoints answer and its result

workerVars == <<pc, wire, valid, init, calls, resolved, addrs, attempts, dest, err, srcLog>>
relayVars == <<sent, inq, closed, cbuf, cpc, delivered, shut>>
vars == <<pending, listener, workerVars, relayVars, router, boot>>

\* k8s.rs:20-39: the DNS servers found at startup
DnsServers == << <<10, 0, 0, 10>> >>

\* main.rs:245-250
Ctx ==
    [cluster_local |-> "cluster.local",
     default_namespace |-> default_namespace,
     dns_servers |-> DnsServers]

\* the process is past startup: discovery gave DnsServers (main.rs:235-238)
Booted ==
    [api |-> [ok |-> TRUE,
              endpoints |-> [subsets |-> << <<[ports |-> << <<53>> >>,
                                               addresses |-> << <<"10.0.0.10">> >>]>> >>]],
     called |-> TRUE,
     out |-> FindResult("ok", DnsServers, "")]

RouterIdle == [hostname |-> <<>>, port |-> 0, api |-> ApiFailure, dns |-> DnsFailure,
               called |-> FALSE, out |-> ResolveResult("none", <<>>, "", <<>>)]

InitServing(clients, handshakes) ==
    /\ pending = clients
    /\ listener = "listening"
    /\ pc = [c \in Clients |-> "idle"]
    /\ \E hs \in [clients -> handshakes] :
          wire = [c \in Clients |-> IF c \in clients THEN hs[c] ELSE <<>>]
    /\ valid = [c \in Clients |-> <<>>]
    /\ init = [c \in Clients |-> NoConnect]
    /\ calls = [c \in Clients |-> <<>>]
    /\ resolved = [c \in Clients |-> "none"]
    /\ addrs = [c \in Clients |-> <<>>]
    /\ attempts = [c \in Clients |-> 0]
    /\ dest = [c \in Clients |-> <<>>]
    /\ err = [c \in Clients |-> ""]
    /\ srcLog = [c \in Clients |-> <<>>]
    /\ sent = [c \in Clients |-> [d \in Dirs |-> <<>>]]
    /\ inq = [c \in Clients |-> [d \in Dirs |-> <<>>]]
    /\ closed = [c \in Clients |-> [d \in Dirs |-> FALSE]]
    /\ cbuf = [c \in Clients |-> [d \in Dirs |-> <<>>]]
    /\ cpc = [c \in Clients |-> [d \in Dirs |-> "idle"]]
    /\ delivered = [c \in Clients |-> [d \in Dirs |-> <<>>]]
    /\ shut = [c \in Clients |-> [d \in Dirs |-> FALSE]]

InitWorkers(clients) == InitServing(clients, Handshakes)

\* one client connects
Init ==
    /\ InitWorkers({"c1"})
    /\ router = RouterIdle
    /\ boot = Booted

\* ------------------------------------------------------------------------
\* The accept loop (main.rs:243-256)
\* ------------------------------------------------------------------------

\* the runtime runs tasks until main returns
Alive == listener = "listening"

\* listener.accept() returns a socket; tokio::spawn starts its worker
Accept(c) ==
    /\ Alive
    /\ c \in pending
    /\ pending' = pending \ {c}
    /\ pc' = [pc EXCEPT ![c] = "peer_addr"]
    /\ UNCHANGED <<listener, wire, valid, init, calls, resolved, addrs, attempts, dest,
                   err, srcLog, relayVars, router, boot>>

\* listener.accept() returns an error: `?` ends main, and with it every task
AcceptError ==
    /\ Alive
    /\ listener' = "failed"
    /\ UNCHANGED <<pending, workerVars, relayVars, router, boot>>

\* ------------------------------------------------------------------------
\* The worker (main.rs:134-207)
\* ------------------------------------------------------------------------

Fails(c, e) ==
    /\ pc' = [pc EXCEPT ![c] = "err"]
    /\ err' = [err EXCEPT ![c] = e]

\* source.write_all(data): the call is issued; ok tells how it returned
SourceWrite(c, data, ok) ==
    srcLog' = [srcLog EXCEPT ![c] = Append(@, [src |-> "worker", data |-> data, ok |-> ok])]

\* main.rs:135   let peer = source.peer_addr()?;
PeerAddr(c) ==
    /\ Alive
    /\ pc[c] = "peer_addr"
    /\ \E ok \in BOOLEAN :
          IF ok THEN pc' = [pc EXCEPT ![c] = "read"] /\ err' = err
          ELSE Fails(c, "io")
    /\ UNCHANGED <<pending, listener, wire, valid, init, calls, resolved, addrs, attempts,
                   dest, srcLog, relayVars, router, boot>>

\* a read that may return more bytes than the buffer has room for
ReadOutcomesUnbounded(c) ==
    {-1}
    \cup (IF wire[c] = <<>> /\ closed[c]["up"] THEN {0} ELSE {})
    \cup (1..Len(wire[c]))

\* what socket.read(&mut buf[progress..]) can return: -1 for an error, 0 at the
\* client's close or when the buffer is full, else the count of bytes taken
ReadOutcomes(c) ==
    LET room == BufLen - Len(valid[c]) IN
    {-1}
    \cup (IF room = 0 \/ (wire[c] = <<>> /\ closed[c]["up"]) THEN {0} ELSE {})
    \cup (1..Min(Len(wire[c]), room))

\* main.rs:37-126: one pass of the loop of read_initialisation, and on a
\* complete request the worker's match up to its next await (main.rs:139-187)
Read(c) ==
    /\ Alive
    /\ pc[c] = "read"
    /\ \E found \in ReadOutcomes(c) :
          IF found = -1
          THEN Fails(c, "io")
               /\ UNCHANGED <<wire, valid, init, addrs, sent, inq>>
          ELSE IF found = 0
          THEN Fails(c, "unexpected eof reading header")
               /\ UNCHANGED <<wire, valid, init, addrs, sent, inq>>
          ELSE LET v == valid[c] \o SubSeq(wire[c], 1, found)
                   rest == SubSeq(wire[c], found + 1, Len(wire[c]))
                   r == Inspect(v)
               IN  /\ valid' = [valid EXCEPT ![c] = v]
                   /\ IF r.k = "continue"
                      THEN UNCHANGED <<pc, err, init, addrs, sent, inq>>
                           /\ wire' = [wire EXCEPT ![c] = rest]
                      ELSE /\ init' = [init EXCEPT ![c] = r.init]
                           \* what the client sent beyond the bytes read waits
                           \* in the socket for the relay
                           /\ wire' = [wire EXCEPT ![c] = <<>>]
                           /\ sent' = [sent EXCEPT ![c]["up"] = rest]
                           /\ inq' = [inq EXCEPT ![c]["up"] = rest]
                           /\ IF r.k = "bail" THEN Fails(c, r.err) /\ addrs' = addrs
                              ELSE IF r.k = "reject"
                              THEN /\ pc' = [pc EXCEPT ![c] = "reject_head"]
                                   /\ UNCHANGED <<err, addrs>>
                              ELSE IF r.init.type = "InvalidHttpGet"
                              THEN /\ pc' = [pc EXCEPT ![c] = "get_reply"]
                                   /\ UNCHANGED <<err, addrs>>
                              ELSE IF r.init.type = "Socks4Ip"
                              THEN /\ pc' = [pc EXCEPT ![c] = "dial"]
                                   /\ addrs' = [addrs EXCEPT ![c] =
                                                  <<SocketAddr(r.init.ip, r.init.port)>>]
                                   /\ err' = err
                              ELSE /\ pc' = [pc EXCEPT ![c] = "resolve"]
                                   /\ UNCHANGED <<err, addrs>>
    /\ UNCHANGED <<pending, listener, calls, resolved, attempts, dest, srcLog,
                   closed, cbuf, cpc, delivered, shut, router, boot>>

\* main.rs:86   socket.write_all(b"\0\x5b").await?;
RejectHead(c) ==
    /\ Alive
    /\ pc[c] = "reject_head"
    /\ \E ok \in BOOLEAN :
          /\ SourceWrite(c, <<0, 91>>, ok)
          /\ IF ok THEN pc' = [pc EXCEPT ![c] = "reject_echo"] /\ err' = err
             ELSE Fails(c, "io")
    /\ UNCHANGED <<pending, listener, wire, valid, init, calls, resolved, addrs, attempts,
                   dest, relayVars, router, boot>>

\* main.rs:87-88   socket.write_all(&valid[2..8]).await?;  bail!(...)
RejectEcho(c) ==
    /\ Alive
    /\ pc[c] = "reject_echo"
    /\ \E ok \in BOOLEAN :
          /\ SourceWrite(c, Slice(valid[c], 2, 8), ok)
          /\ Fails(c, IF ok THEN "invalid socks4 command" ELSE "io")
    /\ UNCHANGED <<pending, listener, wire, valid, init, calls, resolved, addrs, attempts,
                   dest, relayVars, router, boot>>

\* a worker that answers a failed resolution of an HTTP CONNECT the way it
\* answers a SOCKS one, with a written rejection
ResolveRejectsHttp(c) ==
    /\ Alive
    /\ pc[c] = "resolve"
    /\ \E api \in WorkerApiAnswers, dns \in WorkerDnsAnswers :
          LET r == resolve(Ctx, init[c].hostname, init[c].port, api, dns) IN
          /\ calls' = [calls EXCEPT ![c] = @ \o r.calls]
          /\ resolved' = [resolved EXCEPT ![c] = r.res]
          /\ IF r.res = "ok"
             THEN /\ addrs' = [addrs EXCEPT ![c] = r.addrs]
                  /\ pc' = [pc EXCEPT ![c] = "dial"]
                  /\ err' = err
             ELSE IF r.res = "panic"
             THEN /\ pc' = [pc EXCEPT ![c] = "panic"]
                  /\ UNCHANGED <<addrs, err>>
             ELSE /\ pc' = [pc EXCEPT ![c] = "socks_reject"]
                  /\ UNCHANGED <<addrs, err>>
    /\ UNCHANGED <<pending, listener, wire, valid, init, attempts, dest, srcLog,
                   relayVars, router, boot>>

\* a worker whose panic takes the whole process down
ResolvePanicAborts(c) ==
    /\ Alive
    /\ pc[c] = "resolve"
    /\ \E api \in WorkerApiAnswers, dns \in WorkerDnsAnswers :
          LET r == resolve(Ctx, init[c].hostname, init[c].port, api, dns) IN
          /\ calls' = [calls EXCEPT ![c] = @ \o r.calls]
          /\ resolved' = [resolved EXCEPT ![c] = r.res]
          /\ listener' = IF r.res = "panic" THEN "failed" ELSE listener
          /\ IF r.res = "ok"
             THEN /\ addrs' = [addrs EXCEPT ![c] = r.addrs]
                  /\ pc' = [pc EXCEPT ![c] = "dial"]
                  /\ err' = err
             ELSE IF r.res = "panic"
             THEN /\ pc' = [pc EXCEPT ![c] = "panic"]
                  /\ UNCHANGED <<addrs, err>>
             ELSE IF init[c].type = "Http"
             THEN Fails(c, r.err) /\ addrs' = addrs
             ELSE /\ pc' = [pc EXCEPT ![c] = "socks_reject"]
                  /\ UNCHANGED <<addrs, err>>
    /\ UNCHANGED <<pending, wire, valid, init, attempts, dest, srcLog,
                   relayVars, router, boot>>

\* main.rs:142 and main.rs:150-158: resolve::resolve(...).await, the cluster
\* answering with api and dns
Resolve(c) ==
    /\ Alive
    /\ pc[c] = "resolve"
    /\ \E api \in WorkerApiAnswers, dns \in WorkerDnsAnswers :
          LET r == resolve(Ctx, init[c].hostname, init[c].port, api, dns) IN
          /\ calls' = [calls EXCEPT ![c] = @ \o r.calls]
          /\ resolved' = [resolved EXCEPT ![c] = r.res]
          /\ IF r.res = "ok"
             THEN /\ addrs' = [addrs EXCEPT ![c] = r.addrs]
                  /\ pc' = [pc EXCEPT ![c] = "dial"]
                  /\ err' = err
             ELSE IF r.res = "panic"
             THEN /\ pc' = [pc EXCEPT ![c] = "panic"]
                  /\ UNCHANGED <<addrs, err>>
             ELSE IF init[c].type = "Http"
             THEN Fails(c, r.err) /\ addrs' = addrs
             ELSE /\ pc' = [pc EXCEPT ![c] = "socks_reject"]
                  /\ UNCHANGED <<addrs, err>>
    /\ UNCHANGED <<pending, listener, wire, valid, init, attempts, dest, srcLog,
                   relayVars, router, boot>>

\* a worker that returns the resolver's error after writing the rejection
SocksRejectThenFail(c) ==
    /\ Alive
    /\ pc[c] = "socks_reject"
    /\ \E ok \in BOOLEAN :
          /\ SourceWrite(c, ReplySocksRejected, ok)
          /\ Fails(c, IF ok THEN "resolve" ELSE "io")
    /\ UNCHANGED <<pending, listener, wire, valid, init, calls, resolved, addrs, attempts,
                   dest, relayVars, router, boot>>

\* main.rs:155-156   source.write_all(b"\0\x5b\0\0\0\0\0\0").await?;  return Ok(());
SocksReject(c) ==
    /\ Alive
    /\ pc[c] = "socks_reject"
    /\ \E ok \in BOOLEAN :
          /\ SourceWrite(c, ReplySocksRejected, ok)
          /\ IF ok THEN pc' = [pc EXCEPT ![c] = "ok"] /\ err' = err
             ELSE Fails(c, "io")
    /\ UNCHANGED <<pending, listener, wire, valid, init, calls, resolved, addrs, attempts,
                   dest, relayVars, router, boot>>

\* main.rs:177-183
GetMessage(path) ==
    IF path = <<47>> THEN ReplyGetRoot
    ELSE IF path = <<47, 104, 101, 97, 108, 116, 104, 99, 104, 101, 99, 107>>
    THEN ReplyGetHealthcheck
    ELSE ReplyGetNotFound

\* a worker that goes on to the outbound connection after its synthetic reply
GetReplyFallsThrough(c) ==
    /\ Alive
    /\ pc[c] = "get_reply"
    /\ \E ok \in BOOLEAN :
          /\ SourceWrite(c, GetMessage(init[c].path), ok)
          /\ IF ok THEN pc' = [pc EXCEPT ![c] = "dial"] /\ err' = err
             ELSE Fails(c, "io")
    /\ UNCHANGED <<pending, listener, wire, valid, init, calls, resolved, addrs, attempts,
                   dest, relayVars, router, boot>>

\* main.rs:184-185   source.write_all(msg.as_bytes()).await?;  return Ok(());
GetReply(c) ==
    /\ Alive
    /\ pc[c] = "get_reply"
    /\ \E ok \in BOOLEAN :
          /\ SourceWrite(c, GetMessage(init[c].path), ok)
          /\ IF ok THEN pc' = [pc EXCEPT ![c] = "ok"] /\ err' = err
             ELSE Fails(c, "io")
    /\ UNCHANGED <<pending, listener, wire, valid, init, calls, resolved, addrs, attempts,
                   dest, relayVars, router, boot>>

\* a worker that goes on to its reply when no address answered
DialIgnoresFailure(c) ==
    /\ Alive
    /\ pc[c] = "dial"
    /\ \E n \in 0..Len(addrs[c]) :
          /\ attempts' = [attempts EXCEPT ![c] = IF n = 0 THEN Len(addrs[c]) ELSE n]
          /\ dest' = [dest EXCEPT ![c] = IF n = 0 THEN <<>> ELSE <<addrs[c][n]>>]
          /\ pc' = [pc EXCEPT ![c] = "reply"]
          /\ err' = err
    /\ UNCHANGED <<pending, listener, wire, valid, init, calls, resolved, addrs, srcLog,
                   relayVars, router, boot>>

\* main.rs:190   let dest = TcpStream::connect(&*addrs).await?;
\* the addresses are tried in order; n is the one that answers, 0 when none does
Dial(c) ==
    /\ Alive
    /\ pc[c] = "dial"
    /\ \E n \in 0..Len(addrs[c]) :
          IF n = 0
          THEN /\ attempts' = [attempts EXCEPT ![c] = Len(addrs[c])]
               /\ dest' = dest
               /\ Fails(c, "connect")
          ELSE /\ attempts' = [attempts EXCEPT ![c] = n]
               /\ dest' = [dest EXCEPT ![c] = <<addrs[c][n]>>]
               /\ pc' = [pc EXCEPT ![c] = "reply"]
               /\ err' = err
    /\ UNCHANGED <<pending, listener, wire, valid, init, calls, resolved, addrs, srcLog,
                   relayVars, router, boot>>

\* one success message for every protocol
ok_message_always_socks(type) == ReplySocksOk

ok_message_always_http(type) == ReplyHttpOk

\* main.rs:145, 162, 171
ok_message(type) == IF type = "Http" THEN ReplyHttpOk ELSE ReplySocksOk

\* main.rs:191-202   source.write_all(&ok_message).await?; then both sockets are
\* split and the two copy tasks start
Reply(c) ==
    /\ Alive
    /\ pc[c] = "reply"
    /\ \E ok \in BOOLEAN :
          /\ SourceWrite(c, ok_message(init[c].type), ok)
          /\ IF ok
             THEN /\ pc' = [pc EXCEPT ![c] = "relay"]
                  /\ cpc' = [cpc EXCEPT ![c] = [d \in Dirs |-> "copy"]]
                  /\ err' = err
             ELSE Fails(c, "io") /\ cpc' = cpc
    /\ UNCHANGED <<pending, listener, wire, valid, init, calls, resolved, addrs, attempts,
                   dest, sent, inq, closed, cbuf, delivered, shut, router, boot>>

\* ------------------------------------------------------------------------
\* The relay (main.rs:193-217) and the two peers
\* ------------------------------------------------------------------------

\* the bytes a peer writes
DataBytes == {97, 98}

\* the connection a direction reads from exists: the client's since accept,
\* the destination's since connect
Connected(c, d) ==
    IF d = "up" THEN pc[c] = "relay" ELSE pc[c] \in {"reply", "relay"}

\* the peer whose bytes travel in direction d writes one more byte
PeerWrite(c, d) ==
    /\ Alive
    /\ Connected(c, d)
    /\ ~closed[c][d]
    /\ Len(sent[c][d]) < MaxData
    /\ \E b \in DataBytes :
          /\ sent' = [sent EXCEPT ![c][d] = Append(@, b)]
          /\ inq' = [inq EXCEPT ![c][d] = Append(@, b)]
    /\ UNCHANGED <<pending, listener, workerVars, closed, cbuf, cpc, delivered, shut, router, boot>>

\* that peer closes its sending half; a client may also give up mid-handshake
PeerClose(c, d) ==
    /\ Alive
    /\ Connected(c, d) \/ (d = "up" /\ pc[c] = "read" /\ wire[c] = <<>>)
    /\ ~closed[c][d]
    /\ closed' = [closed EXCEPT ![c][d] = TRUE]
    /\ UNCHANGED <<pending, listener, workerVars, sent, inq, cbuf, cpc, delivered, shut, router, boot>>

\* main.rs:214   tokio::io::copy: a read of the bytes at hand into its buffer
CopyRead(c, d) ==
    /\ Alive
    /\ pc[c] = "relay"
    /\ cpc[c][d] = "copy"
    /\ cbuf[c][d] = <<>>
    /\ inq[c][d] # <<>>
    /\ \E n \in 1..Len(inq[c][d]) :
          /\ cbuf' = [cbuf EXCEPT ![c][d] = SubSeq(inq[c][d], 1, n)]
          /\ inq' = [inq EXCEPT ![c][d] = SubSeq(@, n + 1, Len(@))]
    /\ UNCHANGED <<pending, listener, workerVars, sent, closed, cpc, delivered, shut, router, boot>>

\* main.rs:214   tokio::io::copy: a write of buffered bytes to the other side
CopyWrite(c, d) ==
    /\ Alive
    /\ pc[c] = "relay"
    /\ cpc[c][d] = "copy"
    /\ cbuf[c][d] # <<>>
    /\ \E n \in 1..Len(cbuf[c][d]) :
          LET data == SubSeq(cbuf[c][d], 1, n) IN
          /\ cbuf' = [cbuf EXCEPT ![c][d] = SubSeq(@, n + 1, Len(@))]
          /\ delivered' = [delivered EXCEPT ![c][d] = @ \o data]
          /\ srcLog' = IF d = "down"
                       THEN [srcLog EXCEPT ![c] =
                               Append(@, [src |-> "relay", data |-> data, ok |-> TRUE])]
                       ELSE srcLog
    /\ UNCHANGED <<pending, listener, pc, wire, valid, init, calls, resolved, addrs,
                   attempts, dest, err, sent, inq, closed, cpc, shut, router, boot>>

\* a copy that returns at the peer's close with bytes still to carry
CopyEofEarly(c, d) ==
    /\ Alive
    /\ pc[c] = "relay"
    /\ cpc[c][d] = "copy"
    /\ closed[c][d]
    /\ cpc' = [cpc EXCEPT ![c][d] = "shutdown"]
    /\ UNCHANGED <<pending, listener, workerVars, sent, inq, closed, cbuf, delivered, shut,
                   router, boot>>

\* main.rs:214   tokio::io::copy returns Ok: the read met the peer's close and
\* everything read has been written
CopyEof(c, d) ==
    /\ Alive
    /\ pc[c] = "relay"
    /\ cpc[c][d] = "copy"
    /\ cbuf[c][d] = <<>>
    /\ inq[c][d] = <<>>
    /\ closed[c][d]
    /\ cpc' = [cpc EXCEPT ![c][d] = "shutdown"]
    /\ UNCHANGED <<pending, listener, workerVars, sent, inq, closed, cbuf, delivered, shut,
                   router, boot>>

\* a join that returns as soon as either task has returned Ok
ShutdownEndsRelay(c, d) ==
    /\ Alive
    /\ pc[c] = "relay"
    /\ cpc[c][d] = "shutdown"
    /\ shut' = [shut EXCEPT ![c][d] = TRUE]
    /\ cpc' = [cpc EXCEPT ![c][d] = "done"]
    /\ pc' = [pc EXCEPT ![c] = "ok"]
    /\ UNCHANGED <<pending, listener, wire, valid, init, calls, resolved, addrs, attempts,
                   dest, err, srcLog, sent, inq, closed, cbuf, delivered, router, boot>>

\* main.rs:215-216   writer.shutdown().await?; Ok(b)
\* main.rs:199-206   try_join! returns once both tasks have returned Ok
Shutdown(c, d) ==
    /\ Alive
    /\ pc[c] = "relay"
    /\ cpc[c][d] = "shutdown"
    /\ shut' = [shut EXCEPT ![c][d] = TRUE]
    /\ cpc' = [cpc EXCEPT ![c][d] = "done"]
    /\ pc' = [pc EXCEPT ![c] = IF cpc[c][Other(d)] = "done" THEN "ok" ELSE "relay"]
    /\ UNCHANGED <<pending, listener, wire, valid, init, calls, resolved, addrs, attempts,
                   dest, err, srcLog, sent, inq, closed, cbuf, delivered, router, boot>>

\* main.rs:214-215 and main.rs:199-202: a read, a write or the shutdown of one
\* task returns an error; try_join! returns it at once and drops the other task
CopyError(c, d) ==
    /\ Alive
    /\ pc[c] = "relay"
    /\ cpc[c][d] \in {"copy", "shutdown"}
    /\ cpc' = [cpc EXCEPT ![c][d] = "err"]
    /\ Fails(c, "io")
    \* the worker returns: its sockets are dropped with what they still held
    /\ inq' = [inq EXCEPT ![c] = [e \in Dirs |-> <<>>]]
    /\ cbuf' = [cbuf EXCEPT ![c] = [e \in Dirs |-> <<>>]]
    /\ UNCHANGED <<pending, listener, wire, valid, init, calls, resolved, addrs, attempts,
                   dest, srcLog, sent, closed, delivered, shut, router, boot>>

\* ------------------------------------------------------------------------
\* Specifications
\* ------------------------------------------------------------------------

Worker(c) ==
    \/ PeerAddr(c)
    \/ Read(c)
    \/ RejectHead(c)
    \/ RejectEcho(c)
    \/ Resolve(c)
    \/ SocksReject(c)
    \/ GetReply(c)
    \/ Dial(c)
    \/ Reply(c)

Relay(c, d) ==
    \/ CopyRead(c, d)
    \/ CopyWrite(c, d)
    \/ CopyEof(c, d)
    \/ Shutdown(c, d)
    \/ CopyError(c, d)

Peer(c, d) ==
    \/ PeerWrite(c, d)
    \/ PeerClose(c, d)

\* one connection, served by a process whose accept loop keeps running
Next ==
    \/ \E c \in Clients : Accept(c)
    \/ \E c \in Clients : Worker(c)
    \/ \E c \in Clients, d \in Dirs : Relay(c, d)
    \/ \E c \in Clients, d \in Dirs : Peer(c, d)

Spec == Init /\ [][Next]_vars

\* the copy tasks run whenever they can take a step: the runtime polls every
\* task that is ready
FairSpec ==
    /\ Spec
    /\ \A c \in Clients, d \in Dirs :
          /\ WF_vars(CopyRead(c, d))
          /\ WF_vars(CopyWrite(c, d))
          /\ WF_vars(CopyEof(c, d))
          /\ WF_vars(Shutdown(c, d))

\* ------------------------------------------------------------------------
\* Two connections and an accept loop that may fail
\* ------------------------------------------------------------------------

\* one handshake for each way a worker can end; the peers of these tunnels
\* send nothing beyond the handshake bytes and close when they please
IsolationHandshakes ==
    {HsSocks5, HsSocks4Bind, HsSocks4aDns, HsSocks4aPodByName, HsSocks4IpEarly, HsGetRoot}

InitIsolation ==
    /\ InitServing(Clients, IsolationHandshakes)
    /\ router = RouterIdle
    /\ boot = Booted

NextIsolation ==
    \/ \E c \in Clients : Accept(c)
    \/ AcceptError
    \/ \E c \in Clients : Worker(c)
    \/ \E c \in Clients, d \in Dirs : Relay(c, d)
    \/ \E c \in Clients, d \in Dirs : PeerClose(c, d)

SpecIsolation == InitIsolation /\ [][NextIsolation]_vars

\* ------------------------------------------------------------------------
\* The resolution router on its own: one call, over every input
\* ------------------------------------------------------------------------

\* "a.endpoints.local", "a.b.endpoints.local.", "a.pod.local", "a.b",
\* "a_b.endpoints.local", "endpoints.local", "a.endpoints.local.."
RouterHostnames ==
    {<<97, 46, 101, 110, 100, 112, 111, 105, 110, 116, 115, 46, 108, 111, 99, 97, 108>>,
     <<97, 46, 98, 46, 101, 110, 100, 112, 111, 105, 110, 116, 115, 46, 108, 111, 99, 97,
       108, 46>>,
     <<97, 46, 112, 111, 100, 46, 108, 111, 99, 97, 108>>,
     <<97, 46, 98>>,
     <<97, 95, 98, 46, 101, 110, 100, 112, 111, 105, 110, 116, 115, 46, 108, 111, 99, 97,
       108>>,
     <<101, 110, 100, 112, 111, 105, 110, 116, 115, 46, 108, 111, 99, 97, 108>>,
     <<97, 46, 101, 110, 100, 112, 111, 105, 110, 116, 115, 46, 108, 111, 99, 97, 108,
       46, 46>>}

SpecifiedPorts == {80, 8080}

InitResolve ==
    /\ InitWorkers({})
    /\ \E hostname \in RouterHostnames, port \in SpecifiedPorts,
          api \in ApiAnswers, dns \in DnsAnswers :
          router = [RouterIdle EXCEPT !.hostname = hostname, !.port = port,
                                      !.api = api, !.dns = dns]
    /\ boot = Booted

\* resolve.rs:37-110: the call, the cluster answering with router.api and router.dns
RouterCall ==
    /\ ~router.called
    /\ router' = [router EXCEPT
                    !.called = TRUE,
                    !.out = resolve(Ctx, router.hostname, router.port, router.api,
                                    router.dns)]
    /\ UNCHANGED <<pending, listener, workerVars, relayVars, boot>>

NextResolve == RouterCall

SpecResolve == InitResolve /\ [][NextResolve]_vars

\* ------------------------------------------------------------------------
\* Startup on its own: one discovery, over every kube-dns answer
\* ------------------------------------------------------------------------

InitBoot ==
    /\ InitWorkers({})
    /\ router = RouterIdle
    /\ \E api \in KubeDnsAnswers :
          boot = [api |-> api, called |-> FALSE, out |-> FindResult("none", <<>>, "")]

\* main.rs:235-237: find_dns(client.clone()).await, `?` ending main on an error
FindDns ==
    /\ ~boot.called
    /\ boot' = [boot EXCEPT !.called = TRUE, !.out = find_dns(boot.api)]
    /\ UNCHANGED <<pending, listener, workerVars, relayVars, router>>

NextBoot == FindDns

SpecBoot == InitBoot /\ [][NextBoot]_vars

\* ------------------------------------------------------------------------
\* One connection over every way a handshake can arrive: whole, cut short
\* at any byte by a client that then closes, or longer than the buffer
\* ------------------------------------------------------------------------

\* "CONNECT a.b:0 HTTP/1.1\r\n\r\n"
HsHttpPortZero ==
    <<67, 79, 78, 78, 69, 67, 84, 32, 97, 46, 98, 58, 48, 32, 72, 84, 84, 80, 47, 49,
      46, 49, 13, 10, 13, 10>>
\* SOCKS4 CONNECT 10.1.1.1:0, empty USERID
HsSocks4PortZero == <<4, 1, 0, 0, 10, 1, 1, 1, 0>>
\* SOCKS4a CONNECT "a.b":0, empty USERID
HsSocks4aPortZero == <<4, 1, 0, 0, 0, 0, 0, 1, 0, 97, 46, 98, 0>>
\* SOCKS4 CONNECT 10.1.1.1:80, USERID "u"
HsSocks4IpUser == <<4, 1, 0, 80, 10, 1, 1, 1, 117, 0>>
\* SOCKS4a CONNECT "a.b":80, empty USERID
HsSocks4aDnsNoUser == <<4, 1, 0, 80, 0, 0, 0, 1, 0, 97, 46, 98, 0>>
\* SOCKS4 CONNECT 0.0.0.0:80, USERID "u"
HsSocks4ZeroUser == <<4, 1, 0, 80, 0, 0, 0, 0, 117, 0>>
\* SOCKS4 CONNECT 10.1.1.1:257, empty USERID
HsSocks4Port257 == <<4, 1, 1, 1, 10, 1, 1, 1, 0>>

WholeHandshakes ==
    Handshakes \cup {HsHttpPortZero, HsSocks4PortZero, HsSocks4aPortZero, HsSocks4IpUser,
                     HsSocks4aDnsNoUser, HsSocks4ZeroUser, HsSocks4Port257}

Prefixes(h) == {SubSeq(h, 1, n) : n \in 0..Len(h)}

\* everything a client may have sent when it stops sending
ParseHandshakes == UNION {Prefixes(h) : h \in WholeHandshakes}

\* a SOCKS4 CONNECT whose USERID is still unterminated four bytes short of
\* the buffer's end, and the bytes the client sends after it
LongHead == <<4, 1, 0, 80, 10, 1, 1, 1>> \o [i \in 1..(BufLen - 12) |-> 117]
LongTail == <<117, 117, 117, 117, 117, 0>>

\* a worker in its loop of reads (main.rs:37) with LongHead read so far
InitLongHandshake ==
    /\ pending = {}
    /\ listener = "listening"
    /\ pc = [c \in Clients |-> IF c = "c1" THEN "read" ELSE "idle"]
    /\ wire = [c \in Clients |-> IF c = "c1" THEN LongTail ELSE <<>>]
    /\ valid = [c \in Clients |-> IF c = "c1" THEN LongHead ELSE <<>>]
    /\ init = [c \in Clients |-> NoConnect]
    /\ calls = [c \in Clients |-> <<>>]
    /\ resolved = [c \in Clients |-> "none"]
    /\ addrs = [c \in Clients |-> <<>>]
    /\ attempts = [c \in Clients |-> 0]
    /\ dest = [c \in Clients |-> <<>>]
    /\ err = [c \in Clients |-> ""]
    /\ srcLog = [c \in Clients |-> <<>>]
    /\ sent = [c \in Clients |-> [d \in Dirs |-> <<>>]]
    /\ inq = [c \in Clients |-> [d \in Dirs |-> <<>>]]
    /\ closed = [c \in Clients |-> [d \in Dirs |-> FALSE]]
    /\ cbuf = [c \in Clients |-> [d \in Dirs |-> <<>>]]
    /\ cpc = [c \in Clients |-> [d \in Dirs |-> "idle"]]
    /\ delivered = [c \in Clients |-> [d \in Dirs |-> <<>>]]
    /\ shut = [c \in Clients |-> [d \in Dirs |-> FALSE]]

InitParse ==
    /\ InitServing({"c1"}, ParseHandshakes) \/ InitLongHandshake
    /\ router = RouterIdle
    /\ boot = Booted

SpecParse == InitParse /\ [][Next]_vars

\* ------------------------------------------------------------------------
\* Properties of the resolution router (SpecResolve)
\* ------------------------------------------------------------------------

RouterMatch == RE_captures(router.hostname)

\* the hostname matches the virtual-TLD pattern with kind `endpoints`
IsEndpointsName == RouterMatch # <<>> /\ RouterMatch[1].command = KindEndpoints

RouterCalls == router.out.calls

\* the Endpoints object the API server answered with: its distinct ports and
\* its address literals, in subset-then-address order
AnsweredSubsets == unwrap_or_default(router.api.endpoints.subsets)

AnsweredPorts ==
    UNION {Elems(unwrap_or_default(AnsweredSubsets[i].ports)) : i \in 1..Len(AnsweredSubsets)}

AnsweredLiterals ==
    Flatten([i \in 1..Len(AnsweredSubsets) |->
                unwrap_or_default(AnsweredSubsets[i].addresses)])

AllLiteralsParse ==
    \A i \in 1..Len(AnsweredLiterals) : IpAddr_from_str(AnsweredLiterals[i]) # <<>>

\* the result has one entry per address literal, in order, each with port p
OnePerAddress(p) ==
    /\ router.out.res = "ok"
    /\ Len(router.out.addrs) = Len(AnsweredLiterals)
    /\ \A i \in 1..Len(AnsweredLiterals) :
          /\ router.out.addrs[i].port = p
          /\ <<router.out.addrs[i].ip>> = IpAddr_from_str(AnsweredLiterals[i])

\* C5: within one call of the router, a hostname that matches the pattern with
\* kind `endpoints` causes no DNS query, whatever the Endpoints lookup gives,
\* and a hostname that does not match the pattern causes no Kubernetes API call.
ResolverBackendsExclusive ==
    router.called =>
        /\ IsEndpointsName =>
              \A i \in 1..Len(RouterCalls) : RouterCalls[i].to # "dns"
        /\ RouterMatch = <<>> =>
              \A i \in 1..Len(RouterCalls) : RouterCalls[i].to # "api"

\* C5 witness: the Endpoints lookup failed, DNS would have answered, and the
\* only request issued went to the API
EndpointsFailureAsksNoDns ==
    /\ router.called
    /\ IsEndpointsName
    /\ ~router.api.ok
    /\ router.dns.ok /\ router.dns.ips # <<>>
    /\ router.out.res = "err"
    /\ Len(RouterCalls) = 1 /\ RouterCalls[1].to = "api"

HasSinglePort == router.called /\ IsEndpointsName /\ router.api.ok /\ Cardinality(AnsweredPorts) = 1

SinglePort == CHOOSE p \in AnsweredPorts : TRUE

\* the Endpoints view of the data model: address entries are IP literals, and
\* a single distinct port value fits an unsigned 16-bit integer
WellFormedEndpoints ==
    /\ AllLiteralsParse
    /\ Cardinality(AnsweredPorts) = 1 => u16_try_from(SinglePort) # <<>>

\* C6: when the Endpoints object has exactly one distinct port value P across
\* its subsets and K addresses in total, the result has exactly K entries, one
\* per address in subset-then-address order with duplicates kept, and every
\* entry has port P whatever port the client supplied.
SinglePortGivesOnePerAddress ==
    HasSinglePort /\ WellFormedEndpoints => OnePerAddress(SinglePort)

\* C6 witness: three addresses over two subsets, one of them twice, one port
\* that differs from the client's, and a result
SinglePortThreeAddresses ==
    /\ HasSinglePort
    /\ SinglePort # router.port
    /\ Len(AnsweredSubsets) = 2
    /\ Len(AnsweredLiterals) = 3
    /\ AnsweredLiterals[1] = AnsweredLiterals[3]
    /\ AnsweredLiterals[1] # AnsweredLiterals[2]
    /\ WellFormedEndpoints
    /\ Len(router.out.addrs) = 3

HasManyPorts ==
    /\ router.called /\ IsEndpointsName /\ router.api.ok
    /\ Cardinality(AnsweredPorts) >= 2
    /\ Len(AnsweredLiterals) >= 1

\* C7: with two or more distinct ports and at least one address, every entry
\* of the result has the client-supplied port (and there is one entry per
\* address when every literal parses).
ManyPortsGiveSpecifiedPort ==
    HasManyPorts =>
        /\ router.out.res \in {"ok", "err"}
        /\ \A i \in 1..Len(router.out.addrs) : router.out.addrs[i].port = router.port
        /\ AllLiteralsParse => OnePerAddress(router.port)

\* C7 witness: two ports, neither the client's, and a result with entries
ManyPortsResult ==
    /\ HasManyPorts
    /\ router.port \notin AnsweredPorts
    /\ router.out.res = "ok"
    /\ Len(router.out.addrs) >= 2

\* ------------------------------------------------------------------------
\* Properties of the worker (Spec, FairSpec)
\* ------------------------------------------------------------------------

Terminated(c) == pc[c] \in {"ok", "err", "panic"}

\* the writes the worker itself issued on the source socket, in order
WorkerWrites(c) == SelectSeq(srcLog[c], LAMBDA e : e.src = "worker")

\* the bytes the relay wrote to the client
RelayWrites(c) == SelectSeq(srcLog[c], LAMBDA e : e.src = "relay")

SuccessReplies == {ReplyHttpOk, ReplySocksOk}

\* the outbound connection is established and the reply step has run
Served(c) == dest[c] # <<>> /\ pc[c] # "reply"

\* exactly one write by the worker, of data, ahead of everything the relay wrote
WritesOnceFirst(c, data) ==
    /\ Len(WorkerWrites(c)) = 1
    /\ WorkerWrites(c)[1].data = data
    /\ srcLog[c][1].src = "worker"

\* C1 as stated: every connection whose handshake parsed as an HTTP CONNECT has,
\* once its worker ended, the success line written exactly once, ahead of any
\* relayed byte.
EveryConnectGetsSuccessLine ==
    \A c \in Clients :
        init[c].type = "Http" /\ Terminated(c) => WritesOnceFirst(c, ReplyHttpOk)

\* C1 as amended: for a handshake parsed as an HTTP CONNECT, when resolution
\* succeeded and the outbound connection is established the worker writes the
\* success line exactly once, ahead of any relayed byte; in every other case
\* nothing is written to the client.
ServedConnectGetsSuccessLine ==
    \A c \in Clients :
        init[c].type = "Http" =>
            IF Served(c) THEN WritesOnceFirst(c, ReplyHttpOk)
            ELSE srcLog[c] = <<>>

\* C1 witness: a CONNECT tunnel that ended after the relay wrote to the client
ConnectRelayed ==
    \E c \in Clients :
        /\ init[c].type = "Http"
        /\ pc[c] = "ok"
        /\ WritesOnceFirst(c, ReplyHttpOk)
        /\ RelayWrites(c) # <<>>

\* C2: a SOCKS4 or SOCKS4a CONNECT that is served (parsed, resolved where
\* needed, outbound connection established) has exactly one write by the
\* worker, of the 8 bytes 00 5A 00 00 00 00 00 00, ahead of any relayed byte,
\* and no 00 5B rejection.
ServedSocksGetsGranted ==
    \A c \in Clients :
        init[c].type \in {"Socks4Ip", "Socks4Host"} /\ Served(c) =>
            /\ WritesOnceFirst(c, ReplySocksOk)
            /\ \A i \in 1..Len(WorkerWrites(c)) :
                  Slice(WorkerWrites(c)[i].data, 0, 2) # <<0, 91>>

\* C2 witness: a SOCKS4a tunnel to a resolved host that ended after the relay
\* wrote to the client
SocksHostRelayed ==
    \E c \in Clients :
        /\ init[c].type = "Socks4Host"
        /\ resolved[c] = "ok"
        /\ pc[c] = "ok"
        /\ WritesOnceFirst(c, ReplySocksOk)
        /\ RelayWrites(c) # <<>>

IsPrefix(s, t) == Len(s) <= Len(t) /\ s = SubSeq(t, 1, Len(s))

NoResolutionNoSocket(c) ==
    /\ calls[c] = <<>>
    /\ resolved[c] = "none"
    /\ attempts[c] = 0
    /\ dest[c] = <<>>
    /\ \A d \in Dirs : cpc[c][d] = "idle"

\* C4 as stated: a worker whose handshake parsed as an HTTP GET writes one
\* synthetic reply and ends cleanly, with no resolution and no outbound socket.
GetRepliesAndEndsCleanly ==
    \A c \in Clients :
        init[c].type = "InvalidHttpGet" =>
            /\ NoResolutionNoSocket(c)
            /\ Terminated(c) =>
                  /\ pc[c] = "ok"
                  /\ srcLog[c] = <<[src |-> "worker", data |-> GetMessage(init[c].path),
                                    ok |-> TRUE]>>

\* C4 as amended: such a worker issues one write, of the synthetic reply for
\* the path, with no resolution and no outbound socket; it ends cleanly when
\* the write succeeds and with the I/O error when the write fails.
GetRepliesOnce ==
    \A c \in Clients :
        init[c].type = "InvalidHttpGet" =>
            /\ NoResolutionNoSocket(c)
            /\ pc[c] \in {"get_reply", "ok", "err"}
            /\ pc[c] = "get_reply" => srcLog[c] = <<>>
            /\ Terminated(c) =>
                  /\ Len(srcLog[c]) = 1
                  /\ srcLog[c][1].src = "worker"
                  /\ srcLog[c][1].data = GetMessage(init[c].path)
                  /\ srcLog[c][1].ok <=> pc[c] = "ok"
                  /\ ~srcLog[c][1].ok <=> (pc[c] = "err" /\ err[c] = "io")

\* C4 witness: a GET for a path the worker does not know, answered with the
\* 404 reply
GetAnswered ==
    \E c \in Clients :
        /\ init[c].type = "InvalidHttpGet"
        /\ init[c].path \notin {<<47>>, <<47, 104, 101, 97, 108, 116, 104, 99, 104, 101, 99, 107>>}
        /\ pc[c] = "ok"
        /\ srcLog[c][1].data = ReplyGetNotFound

SocksResolutionFailed(c) == init[c].type = "Socks4Host" /\ resolved[c] = "err"

\* C8 as stated: when resolution of a SOCKS4a hostname returns an error the
\* worker writes the 8 bytes 00 5B 00 00 00 00 00 00, opens no outbound socket,
\* writes no success reply and ends cleanly.
SocksResolutionErrorEndsCleanly ==
    \A c \in Clients :
        SocksResolutionFailed(c) =>
            /\ attempts[c] = 0 /\ dest[c] = <<>>
            /\ Terminated(c) =>
                  /\ pc[c] = "ok"
                  /\ srcLog[c] = <<[src |-> "worker", data |-> ReplySocksRejected,
                                    ok |-> TRUE]>>

\* C8 as amended: the worker then issues one write, of those 8 bytes, opens no
\* outbound socket and writes no success reply; it ends cleanly when the write
\* succeeds and with the I/O error when the write fails.
SocksResolutionErrorRejects ==
    \A c \in Clients :
        SocksResolutionFailed(c) =>
            /\ attempts[c] = 0 /\ dest[c] = <<>>
            /\ \A d \in Dirs : cpc[c][d] = "idle"
            /\ pc[c] \in {"socks_reject", "ok", "err"}
            /\ pc[c] = "socks_reject" => srcLog[c] = <<>>
            /\ Terminated(c) =>
                  /\ Len(srcLog[c]) = 1
                  /\ srcLog[c][1].src = "worker"
                  /\ srcLog[c][1].data = ReplySocksRejected
                  /\ srcLog[c][1].ok <=> pc[c] = "ok"
                  /\ ~srcLog[c][1].ok <=> (pc[c] = "err" /\ err[c] = "io")

\* C8 witness: the Endpoints lookup for a SOCKS4a hostname failed and the
\* worker ended cleanly after the rejection
SocksRejected ==
    \E c \in Clients :
        /\ SocksResolutionFailed(c)
        /\ Len(calls[c]) = 1 /\ calls[c][1].to = "api"
        /\ pc[c] = "ok"
        /\ srcLog[c] = <<[src |-> "worker", data |-> ReplySocksRejected, ok |-> TRUE]>>

\* the errors resolve returns
ResolutionErrors == {"api", "dns", "parsing", "TryFromIntError"}

\* C9: when resolution of the hostname of an HTTP CONNECT returns an error,
\* the worker ends with that error, writes no byte to the client and opens no
\* outbound socket.
ConnectResolutionErrorAborts ==
    \A c \in Clients :
        init[c].type = "Http" /\ resolved[c] = "err" =>
            /\ pc[c] = "err"
            /\ err[c] \in ResolutionErrors
            /\ srcLog[c] = <<>>
            /\ attempts[c] = 0
            /\ dest[c] = <<>>
            /\ \A d \in Dirs : cpc[c][d] = "idle"

\* C9 witness: the DNS query for the hostname of a CONNECT failed
ConnectDnsFailed ==
    \E c \in Clients :
        /\ init[c].type = "Http"
        /\ resolved[c] = "err"
        /\ Len(calls[c]) = 1 /\ calls[c][1].to = "dns"
        /\ err[c] = "dns"

\* the worker has its addresses and the connection attempt has returned
DialReturned(c) ==
    /\ resolved[c] = "ok" \/ init[c].type = "Socks4Ip"
    /\ pc[c] # "dial"

\* C10: a success reply is written only once the outbound connection is
\* established; when no resolved address answers, or resolution gave an empty
\* list, the worker ends with the connection error, with no success reply and
\* no relay.
SuccessReplyOnlyAfterConnect ==
    \A c \in Clients :
        /\ \A i \in 1..Len(srcLog[c]) :
              srcLog[c][i].src = "worker" /\ srcLog[c][i].data \in SuccessReplies
                  => dest[c] # <<>>
        /\ pc[c] = "relay" \/ (\E d \in Dirs : cpc[c][d] # "idle") => dest[c] # <<>>
        /\ DialReturned(c) /\ addrs[c] = <<>> => dest[c] = <<>>
        /\ DialReturned(c) /\ dest[c] = <<>> =>
              /\ pc[c] = "err" /\ err[c] = "connect"
              /\ attempts[c] = Len(addrs[c])
              /\ srcLog[c] = <<>>
              /\ \A d \in Dirs : cpc[c][d] = "idle"

\* C10 witness: two resolved addresses, both tried, neither answered
EveryAddressRefused ==
    \E c \in Clients :
        /\ Len(addrs[c]) = 2
        /\ attempts[c] = 2
        /\ pc[c] = "err" /\ err[c] = "connect"
        /\ srcLog[c] = <<>>

\* ------------------------------------------------------------------------
\* Properties of DNS discovery (SpecBoot)
\* ------------------------------------------------------------------------

MissingSubsets == boot.called /\ boot.api.ok /\ boot.api.endpoints.subsets = <<>>

\* C15 as stated: when the kube-dns Endpoints object has no `subsets` field,
\* discovery succeeds with an empty DNS server set.
MissingSubsetsGivesEmptySet ==
    MissingSubsets => boot.out.res = "ok" /\ boot.out.ips = <<>>

\* C15, what the code does: discovery fails, and startup with it
MissingSubsetsAbortsStartup ==
    /\ MissingSubsets
    /\ boot.out.res = "err"
    /\ boot.out.err = "no kube-dns endpoints at all"

\* the address literals of the subsets that expose port 53, in arrival order
DnsLiterals ==
    LET subsets == unwrap_or_default(boot.api.endpoints.subsets)
        exposing == SelectSeq(subsets,
                              LAMBDA e : \E i \in 1..Len(unwrap_or_default(e.ports)) :
                                            unwrap_or_default(e.ports)[i] = 53)
    IN  Flatten([i \in 1..Len(exposing) |-> unwrap_or_default(exposing[i].addresses)])

\* s with every element that appeared earlier removed
RECURSIVE WithoutRepeats(_)
WithoutRepeats(s) ==
    IF s = <<>> THEN <<>>
    ELSE LET front == WithoutRepeats(SubSeq(s, 1, Len(s) - 1))
             last == s[Len(s)]
         IN  IF \E i \in 1..Len(front) : front[i] = last THEN front
             ELSE Append(front, last)

\* C16 as stated: the list discovery returns holds exactly the address IPs of
\* the subsets that expose port 53, in arrival order, with no IP twice; when
\* one of those literals does not parse, discovery fails.
DiscoveryListsEachAddressOnce ==
    boot.called /\ boot.api.ok /\ boot.api.endpoints.subsets # <<>> =>
        IF \A i \in 1..Len(DnsLiterals) : IpAddr_from_str(DnsLiterals[i]) # <<>>
        THEN /\ boot.out.res = "ok"
             /\ boot.out.ips =
                   WithoutRepeats([i \in 1..Len(DnsLiterals) |->
                                      IpAddr_from_str(DnsLiterals[i])[1]])
        ELSE boot.out.res = "err"

\* C16, what the code does: an address listed by two subsets that expose port
\* 53 is returned twice
DiscoveryRepeatsAddress ==
    /\ boot.called
    /\ boot.out.res = "ok"
    /\ Len(boot.api.endpoints.subsets[1]) = 2
    /\ boot.out.ips = << <<10, 1, 1, 1>>, <<10, 1, 1, 1>> >>

\* ------------------------------------------------------------------------
\* Properties of the wire parser within the worker (Spec)
\* ------------------------------------------------------------------------

\* the 8 fixed header bytes of a SOCKS4 request have arrived and CMD is not CONNECT
RefusedCommand(c) == Len(valid[c]) >= 8 /\ valid[c][1] = 4 /\ valid[c][2] # 1

WorkerWrote(data, ok) == [src |-> "worker", data |-> data, ok |-> ok]

\* the client's PORT and IP bytes
PortAndIp(c) == SubSeq(valid[c], 3, 8)

\* C11 as stated: for a SOCKS4 handshake whose CMD is not 0x01, once the 8
\* header bytes have arrived the worker writes 00 5B and the client's 6
\* PORT+IP bytes and ends with the protocol error, with no resolution and no
\* outbound socket.
RefusedCommandGetsRejection ==
    \A c \in Clients :
        RefusedCommand(c) =>
            /\ NoResolutionNoSocket(c)
            /\ Terminated(c) =>
                  /\ srcLog[c] = <<WorkerWrote(<<0, 91>>, TRUE),
                                   WorkerWrote(PortAndIp(c), TRUE)>>
                  /\ pc[c] = "err" /\ err[c] = "invalid socks4 command"

\* C11 as amended: the worker then issues the write of 00 5B and, when it
\* succeeds, the write of the client's 6 PORT+IP bytes, and ends with an
\* error: the protocol error when both writes succeeded, else the I/O error of
\* the write that failed; it emits no request, performs no resolution and
\* opens no outbound socket, whether or not USERID is terminated.
RefusedCommandIsRejected ==
    \A c \in Clients :
        RefusedCommand(c) =>
            /\ NoResolutionNoSocket(c)
            /\ init[c] = NoConnect
            /\ \/ pc[c] = "reject_head" /\ srcLog[c] = <<>>
               \/ pc[c] = "reject_echo" /\ srcLog[c] = <<WorkerWrote(<<0, 91>>, TRUE)>>
               \/ /\ pc[c] = "err" /\ err[c] = "io"
                  /\ srcLog[c] = <<WorkerWrote(<<0, 91>>, FALSE)>>
               \/ /\ pc[c] = "err" /\ err[c] = "io"
                  /\ srcLog[c] = <<WorkerWrote(<<0, 91>>, TRUE),
                                   WorkerWrote(PortAndIp(c), FALSE)>>
               \/ /\ pc[c] = "err" /\ err[c] = "invalid socks4 command"
                  /\ srcLog[c] = <<WorkerWrote(<<0, 91>>, TRUE),
                                   WorkerWrote(PortAndIp(c), TRUE)>>

\* C11 witness: a BIND request rejected when its 8 header bytes had arrived
\* and its USERID terminator had not
BindRejectedBeforeTerminator ==
    \E c \in Clients :
        /\ RefusedCommand(c)
        /\ Len(valid[c]) = 8
        /\ pc[c] = "err" /\ err[c] = "invalid socks4 command"
        /\ srcLog[c] = <<WorkerWrote(<<0, 91>>, TRUE),
                         WorkerWrote(<<0, 80, 10, 1, 1, 1>>, TRUE)>>

\* the hostname of the request matches the pattern with a reserved kind
ReservedKind(c) ==
    /\ init[c].type \in {"Http", "Socks4Host"}
    /\ RE_captures(init[c].hostname) # <<>>
    /\ RE_captures(init[c].hostname)[1].command \in {KindPod, KindPodByName}

\* C12: for a hostname that matches the pattern with kind `pod` or
\* `pod-by-name` the router fails with "not implemented", with no address
\* list, no API call and no DNS query whatever the cluster would answer, and
\* the worker writes no reply and opens no outbound socket.
ReservedKindNotImplemented ==
    \A c \in Clients :
        ReservedKind(c) =>
            /\ \A api \in WorkerApiAnswers, dns \in WorkerDnsAnswers :
                  resolve(Ctx, init[c].hostname, init[c].port, api, dns)
                      = ResolveResult("panic", <<>>, "not implemented", <<>>)
            /\ pc[c] \in {"resolve", "panic"}
            /\ pc[c] = "panic" <=> resolved[c] = "panic"
            /\ calls[c] = <<>>
            /\ addrs[c] = <<>>
            /\ srcLog[c] = <<>>
            /\ attempts[c] = 0 /\ dest[c] = <<>>
            /\ \A d \in Dirs : cpc[c][d] = "idle"

\* C12 witness: the worker of a SOCKS4a request for a pod-by-name host has
\* ended in the router's failure
PodByNameFailed ==
    \E c \in Clients :
        /\ init[c].type = "Socks4Host"
        /\ ReservedKind(c)
        /\ RE_captures(init[c].hostname)[1].command = KindPodByName
        /\ pc[c] = "panic"

\* ------------------------------------------------------------------------
\* Properties of the accept loop and its workers (SpecIsolation)
\* ------------------------------------------------------------------------

\* everything that belongs to the connection of client c
WorkerView(c) ==
    <<pc[c], wire[c], valid[c], init[c], calls[c], resolved[c], addrs[c], attempts[c],
      dest[c], err[c], srcLog[c], sent[c], inq[c], closed[c], cbuf[c], cpc[c],
      delivered[c], shut[c]>>

Running(c) == pc[c] \notin {"idle", "ok", "err", "panic"}

\* C13: a step of one connection (its worker, its relay, its peers), however
\* it ends that worker, changes nothing of any other connection and does not
\* stop the accept loop; while the loop runs, every pending connection can be
\* accepted and every running worker can take its next step, whatever state
\* the other workers are in; the loop stops only by a step of its own.
WorkersIsolated ==
    /\ [](listener = "listening" =>
            /\ \A c \in pending : ENABLED Accept(c)
            /\ \A c \in Clients :
                  Running(c) => ENABLED (Worker(c) \/ \E d \in Dirs : Relay(c, d)))
    /\ [][\A c \in Clients :
             WorkerView(c)' # WorkerView(c) =>
                 /\ \A o \in Clients \ {c} : WorkerView(o)' = WorkerView(o)
                 /\ listener' = listener
                 /\ pending' \in {pending, pending \ {c}}]_vars

\* C13 witness: one worker ended in the unimplemented-kind failure, the other
\* one served its tunnel to the end, and the loop is still accepting
OneFailedOtherServed ==
    \E c \in Clients, o \in Clients :
        /\ pc[c] = "panic"
        /\ pc[o] = "ok"
        /\ delivered[o]["up"] = <<22>>
        /\ listener = "listening"

\* h is what the client of c sent as its handshake: the bytes read so far, then
\* the bytes still unread
SentHandshake(c, h) == valid[c] \o wire[c] \o sent[c]["up"] = h

\* C14 as stated: a complete, well-formed HTTP CONNECT or GET head that
\* arrives over several reads parses as it does in one read: a read that
\* leaves the head incomplete never ends the parse with a parse error, and
\* the request emitted at the last read is that of the whole head.
SplitHeadParsesLikeWhole ==
    \A c \in Clients, h \in Handshakes :
        /\ valid[c] # <<>>
        /\ h[1] \in {67, 71}
        /\ SentHandshake(c, h)
        /\ Inspect(h).k = "ok"
        => /\ err[c] # "httparse"
           /\ valid[c] = h => init[c] = Inspect(h).init

\* C14, what the code does: the first read brought a proper prefix of a
\* complete CONNECT head and the parse ended with httparse's error
SplitHeadRejected ==
    \E c \in Clients :
        /\ SentHandshake(c, HsHttpDns)
        /\ valid[c] # <<>> /\ Len(valid[c]) < Len(HsHttpDns)
        /\ pc[c] = "err" /\ err[c] = "httparse"
        /\ init[c] = NoConnect

\* ------------------------------------------------------------------------
\* The parser's claims
\* ------------------------------------------------------------------------

CarriesPort(c) == init[c].type \in {"Http", "Socks4Ip", "Socks4Host"}

\* C17: every request the wire parser emits with a port (Http, Socks4Ip,
\* Socks4Host) has a port other than 0, whatever handshake the client sent
EmittedPortNeverZero ==
    \A c \in Clients : CarriesPort(c) => init[c].port # 0

\* "CONNECT a.b:0 HTTP/1.1" and a SOCKS4 CONNECT with port bytes 00 00 are
\* both parsed into a request for port 0
PortZeroEmitted ==
    /\ wire["c1"] = <<>>
    /\ valid["c1"] \in {HsHttpPortZero, HsSocks4PortZero}
    /\ CarriesPort("c1")
    /\ init["c1"].port = 0

\* ------------------------------------------------------------------------
\* The relay's claims
\* ------------------------------------------------------------------------

\* direction d of c's relay has carried everything and half-closed its writer
DirectionDone(c, d) ==
    /\ cpc[c][d] = "done"
    /\ shut[c][d]
    /\ closed[c][d]
    /\ delivered[c][d] = sent[c][d]

\* direction d of c's relay is copying, has lost nothing, and has a step to
\* take unless it waits for its peer
StillRelaying(c, d) ==
    /\ delivered[c][d] \o cbuf[c][d] \o inq[c][d] = sent[c][d]
    /\ \/ ENABLED CopyRead(c, d)
       \/ ENABLED CopyWrite(c, d)
       \/ ENABLED CopyEof(c, d)
       \/ inq[c][d] = <<>> /\ cbuf[c][d] = <<>> /\ ~closed[c][d]

\* C18: the relay ends successfully only when both directions have met EOF
\* and shut down their writer; a direction that has finished leaves the
\* opposite one running, with nothing lost, until its own EOF; an I/O error
\* in either direction ends the worker with that error in the same step and
\* the other direction takes no further step
RelayEndsWhenBothEndOrOneFails ==
    \A c \in Clients :
       /\ (pc[c] = "ok" /\ cpc[c]["up"] # "idle") =>
             \A d \in Dirs : DirectionDone(c, d)
       /\ pc[c] = "relay" =>
             \A d \in Dirs :
                /\ cpc[c][d] \in {"copy", "shutdown", "done"}
                /\ cpc[c][d] = "done" => shut[c][d]
                /\ (cpc[c][d] = "done" /\ cpc[c][Other(d)] = "copy") =>
                      StillRelaying(c, Other(d))
                /\ cpc[c][d] = "shutdown" => ENABLED Shutdown(c, d)
       /\ \A d \in Dirs :
             cpc[c][d] = "err" =>
                /\ pc[c] = "err"
                /\ err[c] = "io"
                /\ cpc[c][Other(d)] # "err"
                /\ ~ENABLED Relay(c, Other(d))

\* the client has finished sending and its direction is shut down while
\* the destination's bytes are still on their way to the client
HalfClosedStillRelaying ==
    /\ pc["c1"] = "relay"
    /\ DirectionDone("c1", "up")
    /\ cpc["c1"]["down"] = "copy"
    /\ delivered["c1"]["down"] # <<>>
    /\ cbuf["c1"]["down"] # <<>>

\* ------------------------------------------------------------------------
\* SOCKS4 framing
\* ------------------------------------------------------------------------

\* the worker of c has left its loop of reads
PastRead(c) == pc[c] \notin {"idle", "peer_addr", "read"}

\* the bytes read so far begin a SOCKS4 CONNECT
IsSocks4Connect(v) == Len(v) >= 2 /\ v[1] = 4 /\ v[2] = 1

\* places (from 1) of the NUL bytes after the fixed header
NulsAfterHeader(v) == {i \in 9..Len(v) : v[i] = 0}

FirstOf(S) == CHOOSE i \in S : \A j \in S : i <= j

\* the IP field reads 0.0.0.x with x other than 0
MarkerField(v) == v[5] = 0 /\ v[6] = 0 /\ v[7] = 0 /\ v[8] # 0

\* the frame is whole: USERID is terminated and, with the marker, so is the
\* hostname
Socks4Complete(v) ==
    /\ NulsAfterHeader(v) # {}
    /\ MarkerField(v) => Cardinality(NulsAfterHeader(v)) >= 2

\* the bytes between the first two NULs after the header
HostnameField(v) ==
    LET n1 == FirstOf(NulsAfterHeader(v))
        n2 == FirstOf(NulsAfterHeader(v) \ {n1})
    IN  SubSeq(v, n1 + 1, n2 - 1)

PortField(v) == v[3] * 256 + v[4]

\* what c's worker holds for a whole frame, leaving aside the hostname's
\* encoding
Socks4Emitted(c) ==
    LET v == valid[c] IN
    IF MarkerField(v)
    THEN init[c] = ConnectType("Socks4Host", HostnameField(v), PortField(v), <<>>, <<>>)
    ELSE init[c] = ConnectType("Socks4Ip", <<>>, PortField(v),
                               <<v[5], v[6], v[7], v[8]>>, <<>>)

\* the worker holds no request and ended on a failed or empty read
EndedUnparsed(c) ==
    /\ init[c] = NoConnect
    /\ pc[c] = "err"
    /\ err[c] \in {"io", "unexpected eof reading header"}

\* C19 as stated: for every SOCKS4 CONNECT, however split, a request is
\* emitted only once the NUL ending USERID has arrived, and it is Socks4Host
\* with the bytes between the two NULs for an IP of 0.0.0.x (x not 0),
\* Socks4Ip with the four IP bytes otherwise, the port being the big-endian
\* value of bytes 2..4, whatever USERID holds
Socks4FrameAlwaysEmitted ==
    \A c \in Clients :
       IsSocks4Connect(valid[c]) =>
          /\ pc[c] = "read" => ~Socks4Complete(valid[c])
          /\ PastRead(c) =>
                IF Socks4Complete(valid[c]) THEN Socks4Emitted(c) ELSE EndedUnparsed(c)

\* C19: the same, except that a hostname that is not well-formed UTF-8 is
\* not emitted: parsing ends with the conversion's error
Socks4FrameEmittedWhenUtf8 ==
    \A c \in Clients :
       IsSocks4Connect(valid[c]) =>
          /\ pc[c] = "read" => ~Socks4Complete(valid[c])
          /\ PastRead(c) =>
                IF ~Socks4Complete(valid[c]) THEN EndedUnparsed(c)
                ELSE IF MarkerField(valid[c]) /\ ~is_utf8(HostnameField(valid[c]), 1)
                THEN init[c] = NoConnect /\ pc[c] = "err" /\ err[c] = "FromUtf8Error"
                ELSE Socks4Emitted(c)

\* a SOCKS4a request with a USERID, read to its second NUL, gave its hostname
Socks4aHostnameEmitted ==
    /\ valid["c1"] = HsSocks4aDns
    /\ PastRead("c1")
    /\ init["c1"] = ConnectType("Socks4Host", <<97, 46, 98>>, 80, <<>>, <<>>)

\* ------------------------------------------------------------------------
\* Incomplete and over-long handshakes
\* ------------------------------------------------------------------------

\* an empty line: a line end directly followed by a line end
HasEmptyLine(v) ==
    \E i \in 1..Len(v) :
       /\ v[i] = 10
       /\ \/ i + 1 <= Len(v) /\ v[i + 1] = 10
          \/ i + 2 <= Len(v) /\ v[i + 1] = 13 /\ v[i + 2] = 10

\* the bytes hold a whole frame of one of the proxy's protocols
FrameComplete(v) ==
    /\ v # <<>>
    /\ IF v[1] = 4 THEN Socks4Complete(v)
       ELSE v[1] \in {67, 71} /\ HasEmptyLine(v)

\* no more bytes can come: the client has closed with nothing in flight, or
\* the buffer is full
NothingMoreToRead(c) ==
    \/ closed[c]["up"] /\ wire[c] = <<>>
    \/ Len(valid[c]) = BufLen

EofError == "unexpected eof reading header"

\* c's worker has asked for no resolution, opened no socket and written no
\* success reply
NothingOpened(c) ==
    /\ init[c] = NoConnect
    /\ resolved[c] = "none"
    /\ attempts[c] = 0
    /\ dest[c] = <<>>
    /\ cpc[c] = [d \in Dirs |-> "idle"]
    /\ \A i \in 1..Len(srcLog[c]) : srcLog[c][i].data \notin SuccessReplies

\* C20: the parser emits a request only from a whole frame and holds at
\* most 4096 bytes; when the client has closed, or 4096 bytes are held, with
\* the frame still incomplete, the next read can only end the parse with an
\* error, and a worker that left its reads on an incomplete frame has ended
\* in an error (or is rejecting the command) with no outbound socket opened
\* and no success reply written
IncompleteFrameNeverServed ==
    \A c \in Clients :
       /\ Len(valid[c]) <= BufLen
       /\ init[c] # NoConnect => FrameComplete(valid[c])
       /\ (pc[c] = "read" /\ NothingMoreToRead(c)) =>
             /\ ~FrameComplete(valid[c])
             /\ ENABLED Read(c)
             /\ ReadOutcomes(c) = {-1, 0}
       /\ err[c] = EofError =>
             /\ ~FrameComplete(valid[c])
             /\ NothingMoreToRead(c)
       /\ (PastRead(c) /\ ~FrameComplete(valid[c])) =>
             /\ NothingOpened(c)
             /\ pc[c] \in {"err", "reject_head", "reject_echo"}
             /\ pc[c] # "err" => valid[c][1] = 4 /\ valid[c][2] # 1

\* a handshake that filled the buffer without completing, with more bytes
\* on their way, ended the parse
FullBufferEndsParse ==
    /\ Len(valid["c1"]) = BufLen
    /\ wire["c1"] # <<>>
    /\ ~closed["c1"]["up"]
    /\ pc["c1"] = "err"
    /\ err["c1"] = EofError
    /\ NothingOpened("c1")

\* a client that closed after the fixed header of a SOCKS4 CONNECT
ClosedMidFrameEndsParse ==
    /\ valid["c1"] = <<4, 1, 0, 80, 10, 1, 1, 1>>
    /\ closed["c1"]["up"]
    /\ pc["c1"] = "err"
    /\ err["c1"] = EofError

====
